---- MODULE Spec2Model ----
(***************************************************************************)
(* Model of the profit/loss accounting engine of the peer-to-peer          *)
(* arbitrage tracker: backend/services/profitCalculator.js (the            *)
(* ProfitCalculator singleton) and backend/routes/summary.js (the routes   *)
(* that drive it).                                                         *)
(*                                                                         *)
(* JavaScript numbers are modelled as exact extended rationals: a record   *)
(* [n, d] in lowest terms with d > 0, and d = 0 for the three non-finite   *)
(* values a division by zero produces (n = 1: Infinity, n = -1: -Infinity, *)
(* n = 0: NaN).  Binary rounding error of IEEE doubles is not modelled.    *)
(***************************************************************************)
EXTENDS Integers, Sequences, FiniteSets, TLC

VARIABLES
    trades,     \* what Trade.find(query).sort({completedAt: 1}).lean() returns
    pc,         \* position of the engine run over `trades`
    fifo,       \* the locals of calculateFIFOProfit
    slices,     \* the locals of every iteration of the FIFO while loop, in order
    avg,        \* the locals of calculateAverageProfit
    fifoResult, \* what calculateFIFOProfit returned
    avgResult,  \* what calculateAverageProfit returned
    method,     \* profitCalculator.method of the exported singleton
    req,        \* the in-flight GET /api/summary requests
    runs,       \* what each finished invocation of the engine returned, in order
    series,     \* the profit time series and its weekly and monthly rollups
    store,      \* the documents of the trades collection
    ops         \* the in-flight operations on the trades collection

vars == <<trades, pc, fifo, slices, avg, fifoResult, avgResult, method, req,
          runs, series, store, ops>>

engineVars == <<trades, pc, fifo, slices, avg, fifoResult, avgResult>>

serverVars == <<method, req>>

otherVars == <<runs, series, store, ops>>

\* No repeated invocation, no time series and no collection in play.
OthersIdle ==
    /\ runs = <<>>
    /\ series = <<>>
    /\ store = <<>>
    /\ ops = <<>>

---------------------------------------------------------------------------
(* JavaScript number arithmetic                                            *)

Abs(i) == IF i < 0 THEN -i ELSE i

Sgn(i) == IF i > 0 THEN 1 ELSE IF i < 0 THEN -1 ELSE 0

RECURSIVE GCD(_, _)
GCD(a, b) == IF b = 0 THEN a ELSE GCD(b, a % b)

\* n / d as a number: in lowest terms, and Infinity, -Infinity or NaN for d = 0.
Frac(n, d) ==
    IF d = 0 THEN [n |-> Sgn(n), d |-> 0]
    ELSE LET g == GCD(Abs(n), Abs(d))
         IN  [n |-> (Sgn(d) * n) \div g, d |-> Abs(d) \div g]

R(i) == [n |-> i, d |-> 1]

Zero == R(0)

NaN == [n |-> 0, d |-> 0]

IsFinite(a) == a.d # 0

IsNaN(a) == a.d = 0 /\ a.n = 0

RNeg(a) == [n |-> -a.n, d |-> a.d]

RAdd(a, b) ==
    IF a.d # 0 /\ b.d # 0 THEN Frac(a.n * b.d + b.n * a.d, a.d * b.d)
    ELSE IF IsNaN(a) \/ IsNaN(b) THEN NaN
    ELSE IF a.d = 0 /\ b.d = 0 THEN (IF a.n = b.n THEN a ELSE NaN)
    ELSE IF a.d = 0 THEN a ELSE b

RSub(a, b) == RAdd(a, RNeg(b))

RMul(a, b) ==
    IF a.d # 0 /\ b.d # 0 THEN Frac(a.n * b.n, a.d * b.d)
    ELSE Frac(Sgn(a.n) * Sgn(b.n), 0)

\* 1 / b; 1 / 0 is Infinity (a zero reached by x - x is +0).
RInv(b) ==
    IF b.d # 0 THEN Frac(b.d, b.n)
    ELSE IF IsNaN(b) THEN NaN ELSE Zero

RDiv(a, b) == RMul(a, RInv(b))

\* a < b; false when either is NaN.
RLt(a, b) ==
    IF IsNaN(a) \/ IsNaN(b) THEN FALSE
    ELSE IF a.d = 0 /\ b.d = 0 THEN a.n < b.n
    ELSE a.n * b.d < b.n * a.d

RGt(a, b) == RLt(b, a)

\* a === b
REq(a, b) == ~IsNaN(a) /\ ~IsNaN(b) /\ a = b

\* Math.min(a, b)
RMin(a, b) ==
    IF IsNaN(a) \/ IsNaN(b) THEN NaN
    ELSE IF RLt(b, a) THEN b ELSE a

\* Math.round(x * 100) / 100: Math.round rounds a half towards +Infinity.
Round2(x) ==
    IF x.d = 0 THEN x
    ELSE Frac((200 * x.n + x.d) \div (2 * x.d), 100)

RECURSIVE RSum(_)
RSum(s) == IF s = <<>> THEN Zero ELSE RAdd(RSum(SubSeq(s, 1, Len(s) - 1)), s[Len(s)])

---------------------------------------------------------------------------
(* Trade records (models/Trade.js), as the engine reads them               *)

MaxTrades == 3

Sides == {"BUY", "SELL"}

Amounts == {5, 10}

Prices == {10, 20}

Fees == {0, 3}

MkTrade(side, amount, price, fee) ==
    [side |-> side, amount |-> R(amount), price |-> R(price),
     totalFiat |-> R(amount * price), feeFiat |-> R(fee)]

TradeDomain ==
    { MkTrade(s, a, p, f) : s \in Sides, a \in Amounts, p \in Prices, f \in Fees }

\* The worked examples of the specification (FIFO lot order, partial lot
\* consumption, AVERAGE weighting).
ExampleLotOrder ==
    << MkTrade("BUY", 5, 10, 0), MkTrade("BUY", 5, 20, 0), MkTrade("SELL", 5, 30, 0) >>

ExamplePartialLot ==
    << MkTrade("BUY", 10, 10, 0), MkTrade("SELL", 4, 15, 0), MkTrade("SELL", 4, 12, 0) >>

ExampleAverage ==
    << MkTrade("BUY", 10, 10, 0), MkTrade("BUY", 10, 20, 0), MkTrade("SELL", 5, 20, 0) >>

Examples == {ExampleLotOrder, ExamplePartialLot, ExampleAverage}

TradeSeqs ==
    UNION { [1..n -> TradeDomain] : n \in 0..MaxTrades } \cup Examples

---------------------------------------------------------------------------
(* ProfitCalculator.calculateFIFOProfit                                    *)

\* trade.feeFiat || 0
OrZero(x) == IF IsNaN(x) \/ x = Zero THEN Zero ELSE x

\* The locals declared at the top of calculateFIFOProfit, and the position
\* of the sellTrades.forEach loop (sellIdx sells have been started).
FifoLocals ==
    [buyQueue |-> <<>>, sellTrades |-> <<>>,
     totalBuyFiat |-> Zero, totalSellFiat |-> Zero,
     totalBuyAmount |-> Zero, totalSellAmount |-> Zero,
     realizedProfit |-> Zero, inventoryRemaining |-> Zero,
     sellIdx |-> 0, remainingSellAmount |-> Zero, sellProfit |-> Zero]

\* The entry pushed for a trade; completedAt is the trade's place in the
\* completedAt-sorted input.
QueueEntry(t, i) ==
    [amount |-> t.amount, price |-> t.price, totalFiat |-> t.totalFiat,
     feeFiat |-> OrZero(t.feeFiat), completedAt |-> i]

\* One iteration of trades.forEach: a BUY goes to buyQueue, a SELL to sellTrades.
PartitionTrade(f, t, i) ==
    IF t.side = "BUY" THEN
        [f EXCEPT !.buyQueue = Append(@, QueueEntry(t, i)),
                  !.totalBuyFiat = RAdd(@, t.totalFiat),
                  !.totalBuyAmount = RAdd(@, t.amount)]
    ELSE IF t.side = "SELL" THEN
        [f EXCEPT !.sellTrades = Append(@, QueueEntry(t, i)),
                  !.totalSellFiat = RAdd(@, t.totalFiat),
                  !.totalSellAmount = RAdd(@, t.amount)]
    ELSE f

RECURSIVE PartitionAll(_, _, _)
PartitionAll(f, ts, i) ==
    IF i > Len(ts) THEN f ELSE PartitionAll(PartitionTrade(f, ts[i], i), ts, i + 1)

\* The start of one sellTrades.forEach iteration.
SellBegin(f) ==
    [f EXCEPT !.sellIdx = @ + 1,
              !.remainingSellAmount = f.sellTrades[f.sellIdx + 1].amount,
              !.sellProfit = Zero]

WhileCond(f) == RGt(f.remainingSellAmount, Zero) /\ Len(f.buyQueue) > 0

\* A LIFO matcher: the newest lot.
BuyQueueLast(q) == Len(q)

\* buyQueue[0]: the index of the lot the loop consumes.
BuyQueueHead(q) == 1

\* The sell's fee share taken against what is left of the sell.
SellFeeOfRemaining(consumedAmount, sellTrade, remainingSellAmount) ==
    RMul(RDiv(consumedAmount, remainingSellAmount), sellTrade.feeFiat)

\* sellFeeProportion
SellFeeProportion(consumedAmount, sellTrade, remainingSellAmount) ==
    RMul(RDiv(consumedAmount, sellTrade.amount), sellTrade.feeFiat)

\* buyFeeProportion
BuyFeeProportion(consumedAmount, buyTrade) ==
    RMul(RDiv(consumedAmount, buyTrade.amount), buyTrade.feeFiat)

\* The constants of one iteration of the while loop.
SliceLocals(f) ==
    LET buyTrade == f.buyQueue[BuyQueueHead(f.buyQueue)]
        sellTrade == f.sellTrades[f.sellIdx]
        consumedAmount == RMin(f.remainingSellAmount, buyTrade.amount)
        profit == RMul(RSub(sellTrade.price, buyTrade.price), consumedAmount)
        buyFeeProportion == BuyFeeProportion(consumedAmount, buyTrade)
        sellFeeProportion ==
            SellFeeProportion(consumedAmount, sellTrade, f.remainingSellAmount)
    IN  [sell |-> sellTrade.completedAt, lot |-> buyTrade.completedAt,
         lotAmount |-> buyTrade.amount, buyPrice |-> buyTrade.price,
         consumedAmount |-> consumedAmount, profit |-> profit,
         buyFeeProportion |-> buyFeeProportion,
         sellFeeProportion |-> sellFeeProportion,
         netProfit |-> RSub(RSub(profit, buyFeeProportion), sellFeeProportion)]

\* Every lot leaves the queue once a sell has touched it.
ShiftAlways(lot) == TRUE

\* buyTrade.amount === 0
FullyConsumed(lot) == REq(lot.amount, Zero)

\* buyQueue.shift()
Shift(q) == SubSeq(q, 2, Len(q))

\* The assignments of one iteration of the while loop.
SliceStep(f) ==
    LET l == SliceLocals(f)
        h == BuyQueueHead(f.buyQueue)
        q == [f.buyQueue EXCEPT ![h].amount = RSub(@, l.consumedAmount)]
    IN  [f EXCEPT !.sellProfit = RAdd(@, l.netProfit),
                  !.remainingSellAmount = RSub(@, l.consumedAmount),
                  !.buyQueue = IF FullyConsumed(q[h]) THEN Shift(q) ELSE q]

\* The unmatched remainder of the sell realized at no cost.
SellEndRemainder(f) ==
    [f EXCEPT !.realizedProfit =
        RAdd(RAdd(@, f.sellProfit),
             RMul(f.remainingSellAmount, f.sellTrades[f.sellIdx].price))]

\* realizedProfit += sellProfit
SellEnd(f) == [f EXCEPT !.realizedProfit = RAdd(@, f.sellProfit)]

\* Only the lot at the head is counted.
QueueHeadAmount(q) == IF q = <<>> THEN Zero ELSE q[1].amount

\* buyQueue.reduce((total, buy) => total + buy.amount, 0)
RECURSIVE QueueAmount(_)
QueueAmount(q) ==
    IF q = <<>> THEN Zero
    ELSE RAdd(QueueAmount(SubSeq(q, 1, Len(q) - 1)), q[Len(q)].amount)

\* The summary calculateFIFOProfit returns.
FifoSummary(f) ==
    LET inventoryRemaining == QueueAmount(f.buyQueue)
        avgBuyPrice == IF RGt(f.totalBuyAmount, Zero)
                       THEN RDiv(f.totalBuyFiat, f.totalBuyAmount) ELSE Zero
        avgSellPrice == IF RGt(f.totalSellAmount, Zero)
                        THEN RDiv(f.totalSellFiat, f.totalSellAmount) ELSE Zero
    IN  [realizedProfitFiat |-> Round2(f.realizedProfit),
         totalBuyFiat |-> Round2(f.totalBuyFiat),
         totalSellFiat |-> Round2(f.totalSellFiat),
         totalBuyAmount |-> Round2(f.totalBuyAmount),
         totalSellAmount |-> Round2(f.totalSellAmount),
         avgBuyPrice |-> Round2(avgBuyPrice),
         avgSellPrice |-> Round2(avgSellPrice),
         inventoryRemaining |-> Round2(inventoryRemaining),
         method |-> "FIFO"]

\* The sell loop run to its end from f (in a sell when inSell).
RECURSIVE MatchAll(_, _)
MatchAll(f, inSell) ==
    IF inSell THEN
        IF WhileCond(f) THEN MatchAll(SliceStep(f), TRUE)
        ELSE MatchAll(SellEnd(f), FALSE)
    ELSE IF f.sellIdx < Len(f.sellTrades) THEN MatchAll(SellBegin(f), TRUE)
    ELSE f

calculateFIFOProfit(ts) == FifoSummary(MatchAll(PartitionAll(FifoLocals, ts, 1), FALSE))

---------------------------------------------------------------------------
(* ProfitCalculator.calculateAverageProfit                                 *)

\* The locals declared at the top of calculateAverageProfit, the position of
\* the trades.forEach loop (idx trades are done) and the constants of the
\* latest BUY iteration (newTotalCost, newTotalAmount) and SELL iteration
\* (grossProfit, excessFees, totalFees, netProfit).
AvgLocals ==
    [totalBuyFiat |-> Zero, totalSellFiat |-> Zero,
     totalBuyAmount |-> Zero, totalSellAmount |-> Zero,
     realizedProfit |-> Zero, inventoryRemaining |-> Zero,
     weightedAverageCost |-> Zero, idx |-> 0,
     newTotalCost |-> Zero, newTotalAmount |-> Zero,
     grossProfit |-> Zero, excessFees |-> Zero, totalFees |-> Zero,
     netProfit |-> Zero]

\* The second operand of totalFees: the share of the buy-side excess.
ExcessFees(a, sellAmount) ==
    IF RGt(a.weightedAverageCost, Zero)
    THEN RMul(RDiv(sellAmount, a.totalBuyAmount),
              RSub(a.totalBuyFiat, RMul(a.totalBuyAmount, a.weightedAverageCost)))
    ELSE Zero

\* The average taken over the sums after the buy was added to them twice.
AvgBuyAddedFirst(a, t) ==
    LET newTotalCost == RAdd(RAdd(a.totalBuyFiat, t.totalFiat), t.totalFiat)
        newTotalAmount == RAdd(RAdd(a.totalBuyAmount, t.amount), t.amount)
    IN  [a EXCEPT !.newTotalCost = newTotalCost,
                  !.newTotalAmount = newTotalAmount,
                  !.weightedAverageCost = RDiv(newTotalCost, newTotalAmount),
                  !.totalBuyFiat = RAdd(@, t.totalFiat),
                  !.totalBuyAmount = RAdd(@, t.amount)]

\* The BUY branch of the forEach body.
AvgBuy(a, t) ==
    LET newTotalCost == RAdd(a.totalBuyFiat, t.totalFiat)
        newTotalAmount == RAdd(a.totalBuyAmount, t.amount)
    IN  [a EXCEPT !.newTotalCost = newTotalCost,
                  !.newTotalAmount = newTotalAmount,
                  !.weightedAverageCost = RDiv(newTotalCost, newTotalAmount),
                  !.totalBuyFiat = RAdd(@, t.totalFiat),
                  !.totalBuyAmount = RAdd(@, t.amount)]

\* The SELL branch of the forEach body.
AvgSell(a, t) ==
    LET sellAmount == t.amount
        sellPrice == t.price
        buyPrice == a.weightedAverageCost
        grossProfit == RMul(RSub(sellPrice, buyPrice), sellAmount)
        excessFees == ExcessFees(a, sellAmount)
        totalFees == RAdd(OrZero(t.feeFiat), excessFees)
        netProfit == RSub(grossProfit, totalFees)
    IN  [a EXCEPT !.grossProfit = grossProfit,
                  !.excessFees = excessFees,
                  !.totalFees = totalFees,
                  !.netProfit = netProfit,
                  !.realizedProfit = RAdd(@, netProfit),
                  !.totalSellFiat = RAdd(@, t.totalFiat),
                  !.totalSellAmount = RAdd(@, sellAmount),
                  !.totalBuyAmount = RSub(@, sellAmount)]

\* One iteration of trades.forEach.
AvgTrade(a, t) ==
    LET b == IF t.side = "BUY" THEN AvgBuy(a, t)
             ELSE IF t.side = "SELL" THEN AvgSell(a, t)
             ELSE a
    IN  [b EXCEPT !.idx = @ + 1]

RECURSIVE AvgAll(_, _)
AvgAll(a, ts) == IF a.idx >= Len(ts) THEN a ELSE AvgAll(AvgTrade(a, ts[a.idx + 1]), ts)

AvgInventoryClamped(a) ==
    IF RLt(a.totalBuyAmount, Zero) THEN Zero ELSE a.totalBuyAmount

\* const inventoryRemaining = totalBuyAmount, after every sell was subtracted
AvgInventory(a) ==
    a.totalBuyAmount

\* The summary calculateAverageProfit returns.
AvgSummary(a) ==
    LET inventoryRemaining == AvgInventory(a)
        avgBuyPrice == IF RGt(a.totalBuyAmount, Zero)
                       THEN RDiv(a.totalBuyFiat, a.totalBuyAmount) ELSE Zero
        avgSellPrice == IF RGt(a.totalSellAmount, Zero)
                        THEN RDiv(a.totalSellFiat, a.totalSellAmount) ELSE Zero
    IN  [realizedProfitFiat |-> Round2(a.realizedProfit),
         totalBuyFiat |-> Round2(a.totalBuyFiat),
         totalSellFiat |-> Round2(a.totalSellFiat),
         totalBuyAmount |-> Round2(a.totalBuyAmount),
         totalSellAmount |-> Round2(a.totalSellAmount),
         avgBuyPrice |-> Round2(avgBuyPrice),
         avgSellPrice |-> Round2(avgSellPrice),
         inventoryRemaining |-> Round2(inventoryRemaining),
         method |-> "AVERAGE"]

calculateAverageProfit(ts) == AvgSummary(AvgAll(AvgLocals, ts))

---------------------------------------------------------------------------
(* The engine run over one trade window: calculateFIFOProfit(trades), then *)
(* calculateAverageProfit(trades) on the same array.                       *)

NoResult == [method |-> "none"]

Init ==
    /\ trades \in TradeSeqs
    /\ pc = "fifo"
    /\ fifo = FifoLocals
    /\ slices = <<>>
    /\ avg = AvgLocals
    /\ fifoResult = NoResult
    /\ avgResult = NoResult
    /\ method = "FIFO"
    /\ req = <<>>
    /\ OthersIdle

\* trades.forEach(...) of calculateFIFOProfit
FIFOPartition ==
    /\ pc = "fifo"
    /\ fifo' = PartitionAll(fifo, trades, 1)
    /\ pc' = "sells"
    /\ UNCHANGED <<trades, slices, avg, fifoResult, avgResult, serverVars, otherVars>>

\* sellTrades.forEach: the next sell
FIFOSellBegin ==
    /\ pc = "sells"
    /\ fifo.sellIdx < Len(fifo.sellTrades)
    /\ fifo' = SellBegin(fifo)
    /\ pc' = "while"
    /\ UNCHANGED <<trades, slices, avg, fifoResult, avgResult, serverVars, otherVars>>

\* one iteration of while (remainingSellAmount > 0 && buyQueue.length > 0)
FIFOSlice ==
    /\ pc = "while"
    /\ WhileCond(fifo)
    /\ slices' = Append(slices, SliceLocals(fifo))
    /\ fifo' = SliceStep(fifo)
    /\ UNCHANGED <<trades, pc, avg, fifoResult, avgResult, serverVars, otherVars>>

\* the while loop ends: realizedProfit += sellProfit
FIFOSellEnd ==
    /\ pc = "while"
    /\ ~WhileCond(fifo)
    /\ fifo' = SellEnd(fifo)
    /\ pc' = "sells"
    /\ UNCHANGED <<trades, slices, avg, fifoResult, avgResult, serverVars, otherVars>>

\* the end of calculateFIFOProfit
FIFOReturn ==
    /\ pc = "sells"
    /\ fifo.sellIdx >= Len(fifo.sellTrades)
    /\ fifo' = [fifo EXCEPT !.inventoryRemaining = QueueAmount(fifo.buyQueue)]
    /\ fifoResult' = FifoSummary(fifo)
    /\ pc' = "average"
    /\ UNCHANGED <<trades, slices, avg, avgResult, serverVars, otherVars>>

\* one iteration of trades.forEach of calculateAverageProfit
AverageTrade ==
    /\ pc = "average"
    /\ avg.idx < Len(trades)
    /\ avg' = AvgTrade(avg, trades[avg.idx + 1])
    /\ UNCHANGED <<trades, pc, fifo, slices, fifoResult, avgResult, serverVars, otherVars>>

\* the end of calculateAverageProfit
AverageReturn ==
    /\ pc = "average"
    /\ avg.idx >= Len(trades)
    /\ avg' = [avg EXCEPT !.inventoryRemaining = AvgInventory(avg)]
    /\ avgResult' = AvgSummary(avg)
    /\ pc' = "done"
    /\ UNCHANGED <<trades, fifo, slices, fifoResult, serverVars, otherVars>>

Next ==
    \/ FIFOPartition
    \/ FIFOSellBegin
    \/ FIFOSlice
    \/ FIFOSellEnd
    \/ FIFOReturn
    \/ AverageTrade
    \/ AverageReturn

Spec == Init /\ [][Next]_vars

---------------------------------------------------------------------------
(* Quantities of the input and of the slice log the properties refer to    *)

FifoFinished == pc \in {"average", "done"}

SliceIds == 1..Len(slices)

SellIds == { i \in 1..Len(trades) : trades[i].side = "SELL" }

BuyIds == { i \in 1..Len(trades) : trades[i].side = "BUY" }

\* The sum of Field over the trades of the input with an index in ids.
RECURSIVE SumAmount(_)
SumAmount(ids) ==
    IF ids = {} THEN Zero
    ELSE LET i == CHOOSE x \in ids : TRUE
         IN  RAdd(trades[i].amount, SumAmount(ids \ {i}))

RECURSIVE SumTotalFiat(_)
SumTotalFiat(ids) ==
    IF ids = {} THEN Zero
    ELSE LET i == CHOOSE x \in ids : TRUE
         IN  RAdd(trades[i].totalFiat, SumTotalFiat(ids \ {i}))

\* The slices, among the first n, cut for sell i / cut from lot j.
SlicesOfSell(i, n) == SelectSeq(SubSeq(slices, 1, n), LAMBDA s : s.sell = i)

SlicesOfLot(j, n) == SelectSeq(SubSeq(slices, 1, n), LAMBDA s : s.lot = j)

ConsumedIn(ss) == RSum([k \in 1..Len(ss) |-> ss[k].consumedAmount])

SellFeesIn(ss) == RSum([k \in 1..Len(ss) |-> ss[k].sellFeeProportion])

NetProfitIn(ss) == RSum([k \in 1..Len(ss) |-> ss[k].netProfit])

Matched(i) == ConsumedIn(SlicesOfSell(i, Len(slices)))

---------------------------------------------------------------------------
(* Properties of calculateFIFOProfit                                       *)

\* C3: every slice is cut from a lot of a BUY, and only once every lot of an
\* earlier BUY has been consumed whole by the slices before it, whatever the
\* lots' prices; buys 5@10, 5@20 and a sell 5@30 realize 100.
C3_FifoArrivalOrder ==
    /\ \A k \in SliceIds :
          /\ slices[k].lot \in BuyIds
          /\ \A j \in BuyIds :
                j < slices[k].lot =>
                    ConsumedIn(SlicesOfLot(j, k - 1)) = trades[j].amount
    /\ (trades = ExampleLotOrder /\ FifoFinished) =>
          /\ fifo.realizedProfit = R(100)
          /\ fifoResult.realizedProfitFiat = R(100)

\* C3 witness: two lots consumed in arrival order although the older one
\* is the more expensive.
C3_Witness ==
    /\ pc = "done"
    /\ Len(slices) >= 2
    /\ slices[1].lot < slices[2].lot
    /\ RGt(slices[1].buyPrice, slices[2].buyPrice)

\* C4: the buy-fee share of every slice is (consumed / the lot's original
\* amount) * the lot's fee.
C4_BuyFeeOfOriginalAmount ==
    \A k \in SliceIds :
        slices[k].buyFeeProportion =
            RMul(RDiv(slices[k].consumedAmount, trades[slices[k].lot].amount),
                 OrZero(trades[slices[k].lot].feeFiat))

\* C5: once calculateFIFOProfit is through, realizedProfit is the sum of the
\* slices' net profits and nothing else; no sell is matched beyond its
\* amount; a sell matched short of its amount emptied the queue and no later
\* sell has a slice; totalSellAmount and totalSellFiat hold every sell whole.
C5_UnmatchedRemainder ==
    FifoFinished =>
        /\ fifo.realizedProfit = NetProfitIn(slices)
        /\ \A i \in SellIds :
              /\ ~RGt(Matched(i), trades[i].amount)
              /\ RLt(Matched(i), trades[i].amount) =>
                    /\ fifo.buyQueue = <<>>
                    /\ ConsumedIn(slices) = SumAmount(BuyIds)
                    /\ \A j \in SellIds : j > i => SlicesOfSell(j, Len(slices)) = <<>>
        /\ fifo.totalSellAmount = SumAmount(SellIds)
        /\ fifo.totalSellFiat = SumTotalFiat(SellIds)
        /\ fifoResult.totalSellAmount = Round2(SumAmount(SellIds))
        /\ fifoResult.totalSellFiat = Round2(SumTotalFiat(SellIds))

\* C5 witness: a sell cut short after a partial match, followed by another sell.
C5_Witness ==
    /\ pc = "done"
    /\ \E i, j \in SellIds :
          /\ i < j
          /\ RGt(Matched(i), Zero)
          /\ RLt(Matched(i), trades[i].amount)

\* C9: a slice that leaves part of its lot is followed, at the next sell, by
\* a slice of the same lot at the same unit price, the lot's amount being
\* lower by exactly what was consumed; until then the lot is the head of
\* the queue with that amount.  Buy 10@10, sell 4@15, sell 4@12: slice
\* profits 20 and 8, 6 left after the first sell, inventoryRemaining 2.
C9_PartialLotCarriesOver ==
    /\ \A k \in SliceIds :
          LET s == slices[k]
              left == RSub(s.lotAmount, s.consumedAmount)
          IN  /\ s.buyPrice = trades[s.lot].price
              /\ RLt(s.consumedAmount, s.lotAmount) =>
                    IF k < Len(slices)
                    THEN /\ slices[k + 1].lot = s.lot
                         /\ slices[k + 1].sell > s.sell
                         /\ slices[k + 1].lotAmount = left
                         /\ slices[k + 1].buyPrice = s.buyPrice
                    ELSE /\ fifo.buyQueue # <<>>
                         /\ fifo.buyQueue[1].completedAt = s.lot
                         /\ fifo.buyQueue[1].amount = left
                         /\ fifo.buyQueue[1].price = s.buyPrice
    /\ (trades = ExamplePartialLot /\ FifoFinished) =>
          /\ Len(slices) = 2
          /\ slices[1].netProfit = R(20)
          /\ slices[2].lotAmount = R(6)
          /\ slices[2].netProfit = R(8)
          /\ fifoResult.inventoryRemaining = R(2)

\* C9 witness: the worked example, run to its end.
C9_Witness ==
    /\ trades = ExamplePartialLot
    /\ pc = "done"
    /\ Len(slices) = 2
    /\ fifo.buyQueue[1].amount = R(2)

\* C10: the sell-fee share of every slice is (consumed / the sell's whole
\* amount) * the sell's fee, so the shares of a sell add up to
\* (matched / amount) * fee: the whole fee when the sell is matched whole.
C10_SellFeeOfWholeAmount ==
    /\ \A k \in SliceIds :
          slices[k].sellFeeProportion =
              RMul(RDiv(slices[k].consumedAmount, trades[slices[k].sell].amount),
                   OrZero(trades[slices[k].sell].feeFiat))
    /\ FifoFinished =>
          \A i \in SellIds :
              SellFeesIn(SlicesOfSell(i, Len(slices))) =
                  IF Matched(i) = trades[i].amount
                  THEN OrZero(trades[i].feeFiat)
                  ELSE RMul(RDiv(Matched(i), trades[i].amount),
                            OrZero(trades[i].feeFiat))

\* C10 witness: a sell with a fee matched whole and a sell with a fee cut short.
C10_Witness ==
    /\ pc = "done"
    /\ \E i, j \in SellIds :
          /\ RGt(trades[i].feeFiat, Zero)
          /\ RGt(trades[j].feeFiat, Zero)
          /\ Matched(i) = trades[i].amount
          /\ RGt(Matched(j), Zero)
          /\ RLt(Matched(j), trades[j].amount)

---------------------------------------------------------------------------
(* Properties of calculateAverageProfit                                    *)

AverageStarted == pc \in {"average", "done"} /\ avg.idx >= 1

BuysUpTo(n) == { i \in BuyIds : i <= n }

SellsUpTo(n) == { i \in SellIds : i <= n }

\* The running sums after the first n trades, taken from the input: the fiat
\* of the buys, and the amount of the buys less the amount of the sells.
RunningBuyFiat(n) == SumTotalFiat(BuysUpTo(n))

RunningBuyAmount(n) == RSub(SumAmount(BuysUpTo(n)), SumAmount(SellsUpTo(n)))

\* The average cost after the first n trades: set by the latest BUY among
\* them from the running sums before it.
WacAfter(n) ==
    IF BuysUpTo(n) = {} THEN Zero
    ELSE LET b == CHOOSE i \in BuysUpTo(n) : \A j \in BuysUpTo(n) : j <= i
         IN  RDiv(RAdd(RunningBuyFiat(b - 1), trades[b].totalFiat),
                  RAdd(RunningBuyAmount(b - 1), trades[b].amount))

\* C6: the excess-buy-fee share of a SELL is (sellAmount / runningBuyAmount)
\* * (runningBuyFiat - runningBuyAmount * weightedAverageCost) when the
\* running buy amount the SELL finds is positive, and zero otherwise.
C6_ExcessShareGuarded ==
    (AverageStarted /\ trades[avg.idx].side = "SELL") =>
        LET t == trades[avg.idx]
            runningBuyAmount == RunningBuyAmount(avg.idx - 1)
            runningBuyFiat == RunningBuyFiat(avg.idx - 1)
        IN  avg.excessFees =
                IF RGt(runningBuyAmount, Zero)
                THEN RMul(RDiv(t.amount, runningBuyAmount),
                          RSub(runningBuyFiat,
                               RMul(runningBuyAmount, WacAfter(avg.idx - 1))))
                ELSE Zero

\* C7: the two methods report the same totalBuyAmount for the same input.
C7_TotalBuyAmountAgrees ==
    pc = "done" => fifoResult.totalBuyAmount = avgResult.totalBuyAmount

\* C8: after every BUY weightedAverageCost is (runningBuyFiat +
\* trade.totalFiat) / (runningBuyAmount + trade.amount) over the running
\* sums before the buy, a SELL leaves it alone, and the gross profit of a
\* SELL is (sellPrice - weightedAverageCost) * sellAmount.  Buys 10@10 and
\* 10@20 give 15; the sell 5@20 that follows has gross profit 25.
C8_WeightedAverageCost ==
    /\ AverageStarted =>
          LET t == trades[avg.idx]
          IN  /\ avg.weightedAverageCost = WacAfter(avg.idx)
              /\ t.side = "SELL" =>
                    avg.grossProfit =
                        RMul(RSub(t.price, WacAfter(avg.idx)), t.amount)
    /\ (trades = ExampleAverage /\ pc = "average" /\ avg.idx = 2) =>
          avg.weightedAverageCost = R(15)
    /\ (trades = ExampleAverage /\ pc = "average" /\ avg.idx = 3) =>
          avg.grossProfit = R(25)

\* C8 witness: the worked example after its sell.
C8_Witness ==
    /\ trades = ExampleAverage
    /\ pc = "average"
    /\ avg.idx = 3
    /\ avg.weightedAverageCost = R(15)
    /\ avg.grossProfit = R(25)

---------------------------------------------------------------------------
(* GET /api/summary: the route handlers sharing the exported calculator    *)

NumRequests == 2

Requests == 1..NumRequests

\* The values of req.query.method tried; "absent" is a request without one.
QueryMethods == {"absent", "FIFO", "AVERAGE", "average", "LIFO"}

\* const { method = 'FIFO' } = req.query
RouteMethod(q) == IF q = "absent" THEN "FIFO" ELSE q

\* String.prototype.toUpperCase on the strings above
ToUpperCase(str) ==
    CASE str = "average" -> "AVERAGE"
      [] str = "fifo" -> "FIFO"
      [] OTHER -> str

\* ['FIFO', 'AVERAGE'].includes(method)
ValidMethod(m) == m \in {"FIFO", "AVERAGE"}

\* The method stored before it is validated.
SetMethodAssignFirst(current, m) == [threw |-> ~ValidMethod(m), method |-> m]

\* setMethod(m) on a calculator whose method is current: whether it threw,
\* and this.method afterwards.
SetMethod(current, m) ==
    IF ~ValidMethod(m) THEN [threw |-> TRUE, method |-> current]
    ELSE [threw |-> FALSE, method |-> m]

NoResponse == [status |-> 0]

\* res.status(500).json({ success: false, message: error.message })
ErrorResponse(message) == [status |-> 500, success |-> FALSE, message |-> message]

\* res.json({ success: true, data: summary })
SummaryResponse(summary) == [status |-> 200, success |-> TRUE, data |-> summary]

NewRequest(q) ==
    [query |-> q, pc |-> "start", fetched |-> FALSE,
     summary |-> NoResult, response |-> NoResponse]

\* The method the handler of request r passes to setMethod.
Passed(r) == ToUpperCase(RouteMethod(req[r].query))

\* The branch of calculateRealizedProfit after the fetch.
SummaryBy(m, ts) ==
    IF m = "FIFO" THEN calculateFIFOProfit(ts) ELSE calculateAverageProfit(ts)

ServerInit ==
    /\ trades \in Examples
    /\ pc = "idle"
    /\ fifo = FifoLocals
    /\ slices = <<>>
    /\ avg = AvgLocals
    /\ fifoResult = NoResult
    /\ avgResult = NoResult
    /\ method = "FIFO"
    /\ req \in [Requests -> { NewRequest(q) : q \in QueryMethods }]
    /\ OthersIdle

\* The handler up to its first suspension: setMethod succeeds and
\* calculateRealizedProfit issues Trade.find and awaits it.
SummaryStart(r) ==
    /\ req[r].pc = "start"
    /\ ~SetMethod(method, Passed(r)).threw
    /\ method' = SetMethod(method, Passed(r)).method
    /\ req' = [req EXCEPT ![r].pc = "fetching", ![r].fetched = TRUE]
    /\ UNCHANGED <<engineVars, otherVars>>

\* setMethod throws: the handler's catch answers 500.
SummaryReject(r) ==
    /\ req[r].pc = "start"
    /\ SetMethod(method, Passed(r)).threw
    /\ method' = SetMethod(method, Passed(r)).method
    /\ req' = [req EXCEPT
                  ![r].pc = "done",
                  ![r].response = ErrorResponse("Invalid method. Must be FIFO or AVERAGE")]
    /\ UNCHANGED <<engineVars, otherVars>>

\* Trade.find resolves: calculateRealizedProfit reads this.method and computes.
FetchResolve(r) ==
    /\ req[r].pc = "fetching"
    /\ req' = [req EXCEPT ![r].pc = "computed",
                          ![r].summary = SummaryBy(method, trades)]
    /\ UNCHANGED <<engineVars, method, otherVars>>

\* Trade.find rejects: the error is rethrown and the handler's catch answers 500.
FetchReject(r) ==
    /\ req[r].pc = "fetching"
    /\ req' = [req EXCEPT
                  ![r].pc = "done",
                  ![r].response = ErrorResponse("Error calculating realized profit")]
    /\ UNCHANGED <<engineVars, method, otherVars>>

\* The handler resumes with the summary and answers.
SummaryRespond(r) ==
    /\ req[r].pc = "computed"
    /\ req' = [req EXCEPT ![r].pc = "done",
                          ![r].response = SummaryResponse(req[r].summary)]
    /\ UNCHANGED <<engineVars, method, otherVars>>

ServerNext ==
    \E r \in Requests :
        \/ SummaryStart(r)
        \/ SummaryReject(r)
        \/ FetchResolve(r)
        \/ FetchReject(r)
        \/ SummaryRespond(r)

ServerSpec == ServerInit /\ [][ServerNext]_vars

---------------------------------------------------------------------------
(* Properties of the summary route                                         *)

\* C1: every summary a request obtains is the one of the method that this
\* request passed, whatever the interleaving with the other request.
C1_SummaryByOwnMethod ==
    \A r \in Requests :
        req[r].summary # NoResult =>
            req[r].summary = SummaryBy(Passed(r), trades)

\* C2: a request whose method is neither FIFO nor AVERAGE is answered in its
\* first step with an error and no summary, has issued no fetch and run no
\* computation, and that step leaves the calculator's method as it was.
C2_InvalidMethodRejected ==
    /\ [](\A r \in Requests :
            ~ValidMethod(Passed(r)) =>
                /\ req[r].pc \in {"start", "done"}
                /\ ~req[r].fetched
                /\ req[r].summary = NoResult
                /\ req[r].pc = "done" =>
                      /\ req[r].response.status = 500
                      /\ ~req[r].response.success
                      /\ "data" \notin DOMAIN req[r].response)
    /\ [][\A r \in Requests :
            (~ValidMethod(Passed(r)) /\ req[r].pc = "start" /\ req'[r].pc # "start")
                => method' = method]_vars

\* C2 witness: a request with an unknown method was refused after the other
\* request had switched the calculator to AVERAGE.
C2_Witness ==
    \E r \in Requests :
        /\ ~ValidMethod(Passed(r))
        /\ req[r].pc = "done"
        /\ req[r].response.status = 500
        /\ method = "AVERAGE"

---------------------------------------------------------------------------
(* Properties of the returned summaries                                    *)

\* C11: under AVERAGE inventoryRemaining is the sum of the BUY amounts less
\* the sum of the SELL amounts of the input, a summary is returned whatever
\* the sign, and the reported value is that difference rounded: negative
\* when the sells exceed the buys, never clamped to zero.
C11_AverageInventorySigned ==
    pc = "done" =>
        LET net == RSub(SumAmount(BuyIds), SumAmount(SellIds))
        IN  /\ avg.inventoryRemaining = net
            /\ avgResult.method = "AVERAGE"
            /\ avgResult.inventoryRemaining = Round2(net)

\* C11 witness: an over-sold input was summarised.
C11_Witness ==
    /\ pc = "done"
    /\ RLt(SumAmount(BuyIds), SumAmount(SellIds))
    /\ RLt(avgResult.inventoryRemaining, Zero)

\* A multiple of 0.01.
IsCents(x) == x.d # 0 /\ 100 % x.d = 0

SummaryFields ==
    {"realizedProfitFiat", "totalBuyFiat", "totalSellFiat", "totalBuyAmount",
     "totalSellAmount", "avgBuyPrice", "avgSellPrice", "inventoryRemaining"}

\* The sum of the net profits of the slices, each as the loop computed it.
RECURSIVE SliceNetSum(_)
SliceNetSum(n) ==
    IF n = 0 THEN Zero ELSE RAdd(SliceNetSum(n - 1), slices[n].netProfit)

\* C18: every numeric field of both returned summaries is a multiple of
\* 0.01, and each is the rounding of a value that was accumulated unrounded:
\* the FIFO profit is the rounded sum of the exact slice profits, and the
\* fields of both summaries are the rounded running sums of the locals.
C18_SummaryRoundedToCents ==
    pc = "done" =>
        /\ \A f \in SummaryFields :
              IsCents(fifoResult[f]) /\ IsCents(avgResult[f])
        /\ fifoResult.realizedProfitFiat = Round2(SliceNetSum(Len(slices)))
        /\ fifoResult.totalBuyFiat = Round2(SumTotalFiat(BuyIds))
        /\ fifoResult.totalSellFiat = Round2(SumTotalFiat(SellIds))
        /\ fifoResult.totalBuyAmount = Round2(SumAmount(BuyIds))
        /\ fifoResult.totalSellAmount = Round2(SumAmount(SellIds))
        /\ avgResult.realizedProfitFiat = Round2(avg.realizedProfit)
        /\ avgResult.totalBuyFiat = Round2(SumTotalFiat(BuyIds))
        /\ avgResult.totalSellFiat = Round2(SumTotalFiat(SellIds))
        /\ avgResult.totalSellAmount = Round2(SumAmount(SellIds))

---------------------------------------------------------------------------
(* The engine invoked again and again on the same calculator object: each  *)
(* invocation runs calculateFIFOProfit and calculateAverageProfit over the *)
(* array it is handed, and `runs` keeps what each invocation returned.     *)

MaxRuns == 3

MaxRepeatLen == 1

RepeatDomain == {MkTrade("BUY", 10, 10, 3), MkTrade("SELL", 5, 20, 3)}

RepeatInputs ==
    Examples \cup UNION {[1..n -> RepeatDomain] : n \in 0..MaxRepeatLen}

FifoEntryKept(f) == f

\* const buyQueue = []; const sellTrades = []; let realizedProfit = 0; ...:
\* the locals are created by the call, whatever an earlier call left.
FifoEntry(f) == FifoLocals

AvgEntryKept(a) == a

\* let realizedProfit = 0; let totalBuyFiat = 0; ...: likewise.
AvgEntry(a) == AvgLocals

RepeatInit ==
    /\ trades \in RepeatInputs
    /\ pc = "fifo"
    /\ fifo = FifoLocals
    /\ slices = <<>>
    /\ avg = AvgLocals
    /\ fifoResult = NoResult
    /\ avgResult = NoResult
    /\ method = "FIFO"
    /\ req = <<>>
    /\ OthersIdle

\* The invocation has returned; the engine is invoked again, on any input.
Reinvoke ==
    /\ pc = "done"
    /\ Len(runs) + 1 < MaxRuns
    /\ runs' = Append(runs, [input |-> trades, fifo |-> fifoResult,
                             average |-> avgResult])
    /\ trades' \in RepeatInputs
    /\ pc' = "fifo"
    /\ fifo' = FifoEntry(fifo)
    /\ slices' = <<>>
    /\ avg' = AvgEntry(avg)
    /\ fifoResult' = NoResult
    /\ avgResult' = NoResult
    /\ UNCHANGED <<serverVars, series, store, ops>>

RepeatNext ==
    \/ Next
    \/ Reinvoke

RepeatSpec == RepeatInit /\ [][RepeatNext]_vars

\* C12: any two invocations over the same trade sequence returned the same
\* summary of each method, whatever was computed between them, and the
\* invocation that has just returned agrees with every earlier one over the
\* same sequence.
C12_RecomputeIdentical ==
    /\ \A i, j \in 1..Len(runs) :
          runs[i].input = runs[j].input =>
              /\ runs[i].fifo = runs[j].fifo
              /\ runs[i].average = runs[j].average
    /\ pc = "done" =>
          \A i \in 1..Len(runs) :
              runs[i].input = trades =>
                  /\ runs[i].fifo = fifoResult
                  /\ runs[i].average = avgResult

\* C12 witness: the third invocation returned over the input of the first,
\* another input having been computed in between, with profit realized.
C12_Witness ==
    /\ pc = "done"
    /\ Len(runs) = 2
    /\ runs[1].input = trades
    /\ runs[2].input # trades
    /\ runs[2].fifo.realizedProfitFiat # Zero
    /\ fifoResult.realizedProfitFiat # Zero
    /\ avgResult.realizedProfitFiat # Zero

---------------------------------------------------------------------------
(* The profit time series and its rollups.                                 *)
(*                                                                         *)
(* A date is a day number: day 0 is Monday 2024-01-01 (UTC), so days 0..30 *)
(* are January and days 31..59 February 2024.  completedAt of a dated      *)
(* trade is the day of completedAt.toISOString().split('T')[0].            *)

MaxSeriesTrades == 3

SeriesDays == {6, 7, 30, 31}

SeriesDomain ==
    {MkTrade("BUY", 10, 10, 3), MkTrade("SELL", 5, 20, 0), MkTrade("SELL", 10, 10, 3)}

Dated(t, d) ==
    [side |-> t.side, amount |-> t.amount, price |-> t.price,
     totalFiat |-> t.totalFiat, feeFiat |-> t.feeFiat, completedAt |-> d]

\* Three trading days of one week with daily profits 10, 15 and 15.
ExampleWeek ==
    << Dated(MkTrade("BUY", 5, 10, 0), 7), Dated(MkTrade("SELL", 5, 12, 0), 7),
       Dated(MkTrade("BUY", 5, 10, 0), 8), Dated(MkTrade("SELL", 5, 13, 0), 8),
       Dated(MkTrade("BUY", 5, 10, 0), 9), Dated(MkTrade("SELL", 5, 13, 0), 9) >>

\* What Trade.find(query).sort({completedAt: 1}) can return.
DatedSeqs ==
    { s \in UNION { [1..n -> { Dated(t, d) : t \in SeriesDomain, d \in SeriesDays }] :
                        n \in 0..MaxSeriesTrades } :
          \A i \in 1..(Len(s) - 1) : s[i].completedAt <= s[i + 1].completedAt }
    \cup {ExampleWeek}

\* Date.prototype.getDay() of a day number: 0 is Sunday.
GetDay(d) == (d + 701) % 7

\* `${date.getFullYear()}-${(date.getMonth() + 1).toString().padStart(2, '0')}`
\* (as the number yyyymm)
MonthKey(d) ==
    IF d < 0 THEN 202312 ELSE IF d < 31 THEN 202401 ELSE 202402

\* The local calendar day of new Date('YYYY-MM-DD'), which is midnight UTC
\* of day d: the day before in a zone west of Greenwich (tz = -1), the
\* same day otherwise (tz = 0).
LocalDay(d, tz) == d + tz

\* toISOString().split('T')[0] of a Date that is at the local time of day of
\* a UTC midnight, on local day l.
IsoDay(l, tz) == l - tz

TimeZones == {-1, 0}

\* The keys of dailyProfits: the first forEach of getProfitTimeSeries.
SeriesDates(ts) == { ts[i].completedAt : i \in 1..Len(ts) }

DayTradesUpTo(ts, date) == SelectSeq(ts, LAMBDA t : t.completedAt <= date)

\* trades.filter(t => t.completedAt.toISOString().split('T')[0] === date)
DayTrades(ts, date) == SelectSeq(ts, LAMBDA t : t.completedAt = date)

\* The sums the first forEach accumulates into dailyProfits[date]: a trade
\* that is not a BUY counts as a sell.
RECURSIVE GroupDay(_, _, _)
GroupDay(ts, date, n) ==
    IF n = 0 THEN [date |-> date, buyAmount |-> Zero, sellAmount |-> Zero,
                   buyFiat |-> Zero, sellFiat |-> Zero,
                   dailyProfit |-> Zero, cumulativeProfit |-> Zero]
    ELSE LET g == GroupDay(ts, date, n - 1)
             t == ts[n]
         IN  IF t.completedAt # date THEN g
             ELSE IF t.side = "BUY"
                  THEN [g EXCEPT !.buyAmount = RAdd(@, t.amount),
                                 !.buyFiat = RAdd(@, t.totalFiat)]
                  ELSE [g EXCEPT !.sellAmount = RAdd(@, t.amount),
                                 !.sellFiat = RAdd(@, t.totalFiat)]

\* The branch on this.method for one day's trades.
DayProfit(m, dayTrades) ==
    IF m = "FIFO" THEN calculateFIFOProfit(dayTrades).realizedProfitFiat
    ELSE calculateAverageProfit(dayTrades).realizedProfitFiat

CumulativeKept(cumulativeProfit, dailyProfit) == dailyProfit

\* cumulativeProfit += day.dailyProfit
Cumulative(cumulativeProfit, dailyProfit) == RAdd(cumulativeProfit, dailyProfit)

\* One iteration of Object.keys(dailyProfits).sort().forEach.
SeriesDayStep(m, ts, date, cumulativeProfit) ==
    LET dailyProfit == DayProfit(m, DayTrades(ts, date))
    IN  [GroupDay(ts, date, Len(ts)) EXCEPT
            !.dailyProfit = dailyProfit,
            !.cumulativeProfit = Cumulative(cumulativeProfit, dailyProfit)]

\* The per-trade time series of the ProfitCalculator class (the variant
\* whose points carry inventory and avgCost).
PointLocals ==
    [idx |-> 0, cumulativeProfit |-> Zero, currentInventory |-> Zero,
     currentCost |-> Zero]

\* One iteration of trades.forEach before timeSeries.push.
PointTrade(p, t) ==
    IF t.side = "BUY" THEN
        [p EXCEPT !.idx = @ + 1,
                  !.currentInventory = RAdd(@, t.amount),
                  !.currentCost = RAdd(@, t.totalFiat)]
    ELSE IF t.side = "SELL" /\ RGt(p.currentInventory, Zero) THEN
        LET avgCost == RDiv(p.currentCost, p.currentInventory)
            consumedAmount == RMin(t.amount, p.currentInventory)
            profit == RMul(RSub(t.price, avgCost), consumedAmount)
            inventory == RSub(p.currentInventory, consumedAmount)
        IN  [p EXCEPT !.idx = @ + 1,
                      !.cumulativeProfit = RAdd(@, profit),
                      !.currentInventory = inventory,
                      !.currentCost = RMul(RDiv(p.currentCost, inventory), inventory)]
    ELSE [p EXCEPT !.idx = @ + 1]

\* The point pushed for trade t once the locals are p.
PointOf(p, t) ==
    [date |-> t.completedAt,
     cumulativeProfit |-> p.cumulativeProfit,
     dailyProfit |-> IF t.side = "SELL" THEN p.cumulativeProfit ELSE Zero,
     inventory |-> p.currentInventory,
     avgCost |-> IF RGt(p.currentInventory, Zero)
                 THEN RDiv(p.currentCost, p.currentInventory) ELSE Zero]

\* The numbers of a set in ascending order.
RECURSIVE Ascending(_)
Ascending(S) ==
    IF S = {} THEN <<>>
    ELSE LET m == CHOOSE x \in S : \A y \in S : x <= y
         IN  <<m>> \o Ascending(S \ {m})

\* getWeekStart(date) of the helper: back to Monday, in local time.
getWeekStart(l) == l - GetDay(l) + (IF GetDay(l) = 0 THEN -6 ELSE 1)

\* weekKey of aggregateToWeekly for the daily point of date d.
WeekKey(d, tz) == IsoDay(getWeekStart(LocalDay(d, tz)), tz)

\* weekStart.setDate(date.getDate() - date.getDay()) of the /weekly route.
RouteWeekStart(l) == l - GetDay(l)

RouteWeekKey(d, tz) == IsoDay(RouteWeekStart(LocalDay(d, tz)), tz)

\* monthKey of aggregateToMonthly and of the /monthly route.
MonthKeyOf(d, tz) == MonthKey(LocalDay(d, tz))

\* Field f of the entries e summed in order, from 0.
RECURSIVE SumField(_, _)
SumField(e, f) ==
    IF e = <<>> THEN Zero
    ELSE RAdd(SumField(SubSeq(e, 1, Len(e) - 1), f), e[Len(e)][f])

\* The bucket aggregateToWeekly / aggregateToMonthly builds from the daily
\* points e that fall under key k, in their order.
AggregateBucket(k, e) ==
    [key |-> k,
     buyAmount |-> SumField(e, "buyAmount"),
     sellAmount |-> SumField(e, "sellAmount"),
     buyFiat |-> SumField(e, "buyFiat"),
     sellFiat |-> SumField(e, "sellFiat"),
     dailyProfit |-> SumField(e, "dailyProfit"),
     cumulativeProfit |-> e[Len(e)].cumulativeProfit]

\* The bucket the /weekly and /monthly routes build from the points e that
\* fall under key k: every field is assigned from each entry in turn.
RouteBucket(k, e) ==
    [key |-> k,
     cumulativeProfit |-> e[Len(e)].cumulativeProfit,
     periodProfit |-> e[Len(e)].dailyProfit,
     inventory |-> e[Len(e)].inventory,
     avgCost |-> e[Len(e)].avgCost]

\* The dates of the points of a series.
DatesOf(data) == { data[i].date : i \in 1..Len(data) }

\* The points of data grouped under key[date], one bucket per key, sorted
\* by key: summed buckets for the helpers, assigned ones for the routes.
RollupBy(data, key, summed) ==
    LET keys == Ascending({ key[d] : d \in DatesOf(data) })
    IN  [n \in 1..Len(keys) |->
            LET e == SelectSeq(data, LAMBDA x : key[x.date] = keys[n])
            IN  IF summed THEN AggregateBucket(keys[n], e)
                ELSE RouteBucket(keys[n], e)]

aggregateToWeekly(dailyData, tz) ==
    RollupBy(dailyData, [d \in DatesOf(dailyData) |-> WeekKey(d, tz)], TRUE)

aggregateToMonthly(dailyData, tz) ==
    RollupBy(dailyData, [d \in DatesOf(dailyData) |-> MonthKeyOf(d, tz)], TRUE)

RouteWeekly(timeSeries, tz) ==
    RollupBy(timeSeries, [d \in DatesOf(timeSeries) |-> RouteWeekKey(d, tz)], FALSE)

RouteMonthly(timeSeries, tz) ==
    RollupBy(timeSeries, [d \in DatesOf(timeSeries) |-> MonthKeyOf(d, tz)], FALSE)

SeriesStart(tz) ==
    [pc |-> "days", tz |-> tz,
     cumulativeProfit |-> Zero, daily |-> <<>>,
     weekly |-> <<>>, monthly |-> <<>>,
     p |-> PointLocals, points |-> <<>>,
     routeWeekly |-> <<>>, routeMonthly |-> <<>>]

\* The fetch of getProfitTimeSeries has resolved with `trades`; the server
\* runs in time zone series.tz and the calculator's method is `method`.
SeriesInit ==
    /\ trades \in DatedSeqs
    /\ pc = "series"
    /\ fifo = FifoLocals
    /\ slices = <<>>
    /\ avg = AvgLocals
    /\ fifoResult = NoResult
    /\ avgResult = NoResult
    /\ method \in {"FIFO", "AVERAGE"}
    /\ req = <<>>
    /\ runs = <<>>
    /\ series \in { SeriesStart(tz) : tz \in TimeZones }
    /\ store = <<>>
    /\ ops = <<>>

SeriesUnchanged == UNCHANGED <<engineVars, serverVars, runs, store, ops>>

\* One iteration of Object.keys(dailyProfits).sort().forEach(date => ...).
TimeSeriesDay ==
    /\ series.pc = "days"
    /\ Len(series.daily) < Cardinality(SeriesDates(trades))
    /\ LET date == Ascending(SeriesDates(trades))[Len(series.daily) + 1]
           day == SeriesDayStep(method, trades, date, series.cumulativeProfit)
       IN  series' = [series EXCEPT !.daily = Append(@, day),
                                    !.cumulativeProfit = day.cumulativeProfit]
    /\ SeriesUnchanged

\* return Object.values(dailyProfits).sort(...)
TimeSeriesReturn ==
    /\ series.pc = "days"
    /\ Len(series.daily) >= Cardinality(SeriesDates(trades))
    /\ series' = [series EXCEPT !.pc = "weekly"]
    /\ SeriesUnchanged

\* GET /weekly of the helper-based routes: aggregateToWeekly(dailyData)
AggregateWeekly ==
    /\ series.pc = "weekly"
    /\ series' = [series EXCEPT !.pc = "monthly",
                                !.weekly = aggregateToWeekly(series.daily, series.tz)]
    /\ SeriesUnchanged

\* GET /monthly of the helper-based routes: aggregateToMonthly(dailyData)
AggregateMonthly ==
    /\ series.pc = "monthly"
    /\ series' = [series EXCEPT !.pc = "points",
                                !.monthly = aggregateToMonthly(series.daily, series.tz)]
    /\ SeriesUnchanged

\* One iteration of trades.forEach of the per-trade getProfitTimeSeries.
PointStep ==
    /\ series.pc = "points"
    /\ series.p.idx < Len(trades)
    /\ LET t == trades[series.p.idx + 1]
           p == PointTrade(series.p, t)
       IN  series' = [series EXCEPT !.p = p, !.points = Append(@, PointOf(p, t))]
    /\ SeriesUnchanged

\* return timeSeries
PointsReturn ==
    /\ series.pc = "points"
    /\ series.p.idx >= Len(trades)
    /\ series' = [series EXCEPT !.pc = "routeWeekly"]
    /\ SeriesUnchanged

\* GET /weekly grouping the per-trade series in the handler.
RouteWeeklyGroup ==
    /\ series.pc = "routeWeekly"
    /\ series' = [series EXCEPT !.pc = "routeMonthly",
                                !.routeWeekly = RouteWeekly(series.points, series.tz)]
    /\ SeriesUnchanged

\* GET /monthly grouping the per-trade series in the handler.
RouteMonthlyGroup ==
    /\ series.pc = "routeMonthly"
    /\ series' = [series EXCEPT !.pc = "done",
                                !.routeMonthly = RouteMonthly(series.points, series.tz)]
    /\ SeriesUnchanged

SeriesNext ==
    \/ TimeSeriesDay
    \/ TimeSeriesReturn
    \/ AggregateWeekly
    \/ AggregateMonthly
    \/ PointStep
    \/ PointsReturn
    \/ RouteWeeklyGroup
    \/ RouteMonthlyGroup

SeriesSpec == SeriesInit /\ [][SeriesNext]_vars

---------------------------------------------------------------------------
(* Properties of the time series and the rollups                           *)

\* The trades of the input completed on the given day, in input order.
TradesOn(date) ==
    LET ids == Ascending({ i \in 1..Len(trades) : trades[i].completedAt = date })
    IN  [n \in 1..Len(ids) |-> trades[ids[n]]]

\* The realized profit of the calculator's method over the trades ts.
ProfitOf(ts) ==
    IF method = "FIFO" THEN calculateFIFOProfit(ts).realizedProfitFiat
    ELSE calculateAverageProfit(ts).realizedProfitFiat

\* C13: the daily points are in ascending date order, one for each day with
\* a trade; dailyProfit of a point is the realized profit of the selected
\* method over the trades completed on that day alone, and cumulativeProfit
\* is the sum of dailyProfit over the point and all points before it.  The
\* three days with profits 10, 15, 15 accumulate to 10, 25, 40.
C13_DailyAndCumulative ==
    /\ \A k \in 1..Len(series.daily) :
          LET day == series.daily[k]
          IN  /\ day.dailyProfit = ProfitOf(TradesOn(day.date))
              /\ day.cumulativeProfit =
                     SumField(SubSeq(series.daily, 1, k), "dailyProfit")
              /\ k > 1 => series.daily[k - 1].date < day.date
    /\ (series.pc # "days") =>
          DatesOf(series.daily) = SeriesDates(trades)
    /\ (series.pc # "days" /\ trades = ExampleWeek) =>
          /\ Len(series.daily) = 3
          /\ series.daily[1].cumulativeProfit = R(10)
          /\ series.daily[2].cumulativeProfit = R(25)
          /\ series.daily[3].cumulativeProfit = R(40)

\* C13 witness: a returned series of two days or more, with a day of several
\* trades and finite non-zero profit on the first two days.
C13_Witness ==
    /\ series.pc = "weekly"
    /\ Len(series.daily) >= 2
    /\ Len(trades) > Len(series.daily)
    /\ \A k \in 1..2 :
          /\ IsFinite(series.daily[k].dailyProfit)
          /\ series.daily[k].dailyProfit # Zero
    /\ series.daily[2].cumulativeProfit # series.daily[2].dailyProfit

\* The points of data that the rollup put under key k, Key being the
\* function from dates to keys the rollup used.
Members(data, key, k) == SelectSeq(data, LAMBDA x : key[x.date] = k)

WeekKeys == [d \in DatesOf(series.daily) |-> WeekKey(d, series.tz)]

MonthKeys == [d \in DatesOf(series.daily) |-> MonthKeyOf(d, series.tz)]

RouteWeekKeys == [d \in DatesOf(series.points) |-> RouteWeekKey(d, series.tz)]

RouteMonthKeys == [d \in DatesOf(series.points) |-> MonthKeyOf(d, series.tz)]

\* A bucket of the helpers: profit summed, cumulativeProfit of the last day.
SummedBucket(b, e) ==
    /\ e # <<>>
    /\ b.dailyProfit = SumField(e, "dailyProfit")
    /\ b.cumulativeProfit = e[Len(e)].cumulativeProfit

\* A bucket of the routes: profit summed; cumulativeProfit, inventory and
\* avgCost of the last point.
SummedRouteBucket(b, e) ==
    /\ e # <<>>
    /\ b.periodProfit = SumField(e, "dailyProfit")
    /\ b.cumulativeProfit = e[Len(e)].cumulativeProfit
    /\ b.inventory = e[Len(e)].inventory
    /\ b.avgCost = e[Len(e)].avgCost

\* C14: every week and month bucket, of the helpers as of the routes, has
\* as its profit the sum of dailyProfit over the points rolled into it and
\* takes cumulativeProfit (and inventory, avgCost where the points carry
\* them) from the last of these points; the three days with cumulative
\* profits 10, 25, 40, rolled into one week, report 40 and a profit of 40.
C14_RollupSumsAndLast ==
    /\ \A n \in 1..Len(series.weekly) :
          SummedBucket(series.weekly[n],
                       Members(series.daily, WeekKeys, series.weekly[n].key))
    /\ \A n \in 1..Len(series.monthly) :
          SummedBucket(series.monthly[n],
                       Members(series.daily, MonthKeys, series.monthly[n].key))
    /\ \A n \in 1..Len(series.routeWeekly) :
          SummedRouteBucket(series.routeWeekly[n],
                            Members(series.points, RouteWeekKeys,
                                    series.routeWeekly[n].key))
    /\ \A n \in 1..Len(series.routeMonthly) :
          SummedRouteBucket(series.routeMonthly[n],
                            Members(series.points, RouteMonthKeys,
                                    series.routeMonthly[n].key))
    /\ (trades = ExampleWeek /\ Len(series.weekly) = 1) =>
          /\ series.weekly[1].cumulativeProfit = R(40)
          /\ series.weekly[1].dailyProfit = R(40)

\* The quantity held after the first n trades of the input: every BUY adds
\* its amount, every SELL takes its amount as far as the holding goes.
RECURSIVE HeldAfter(_)
HeldAfter(n) ==
    IF n = 0 THEN Zero
    ELSE LET t == trades[n]
             held == HeldAfter(n - 1)
         IN  IF t.side = "BUY" THEN RAdd(held, t.amount)
             ELSE RSub(held, RMin(t.amount, held))

\* The place in the input of the last trade completed on or before date.
LastUpTo(date) ==
    Cardinality({ i \in 1..Len(trades) : trades[i].completedAt <= date })

\* The per-trade points alone carry the running inventory.
PerTradeInventoryRuns ==
    \A k \in 1..Len(series.points) :
        /\ {"inventory", "avgCost"} \subseteq DOMAIN series.points[k]
        /\ series.points[k].inventory = HeldAfter(k)

\* C15: every point of a time series, per trade or per day, carries
\* inventory and avgCost, and its inventory is the quantity held after all
\* the trades up to the point, whatever their day: what was bought on an
\* earlier day counts until it is sold.
C15_PointsCarryRunningInventory ==
    /\ PerTradeInventoryRuns
    /\ \A k \in 1..Len(series.daily) :
          /\ {"inventory", "avgCost"} \subseteq DOMAIN series.daily[k]
          /\ series.daily[k].inventory = HeldAfter(LastUpTo(series.daily[k].date))

\* The Monday on or before day d (day 0 is a Monday).
MondayOf(d) == d - ((d + 700) % 7)

KeysOf(buckets) == { buckets[n].key : n \in 1..Len(buckets) }

\* The daily points whose date falls in the week that starts on Monday m.
WeekOf(data, m) == SelectSeq(data, LAMBDA x : MondayOf(x.date) = m)

\* C17: the weekly buckets, of the helper as of the route, are keyed by the
\* Mondays on or before the dates of the points, one bucket per such Monday,
\* and a bucket of the helper sums exactly the points of the seven days from
\* its Monday: a Sunday and the Monday after it are never in one bucket.
C17_WeeksStartMonday ==
    /\ series.pc \notin {"days", "weekly"} =>
          /\ KeysOf(series.weekly) = { MondayOf(d) : d \in DatesOf(series.daily) }
          /\ \A n \in 1..Len(series.weekly) :
                series.weekly[n].buyAmount =
                    SumField(WeekOf(series.daily, series.weekly[n].key), "buyAmount")
    /\ series.pc \in {"routeMonthly", "done"} =>
          /\ KeysOf(series.routeWeekly) =
                 { MondayOf(d) : d \in DatesOf(series.points) }
          /\ Len(series.routeWeekly) = Cardinality(KeysOf(series.routeWeekly))

---------------------------------------------------------------------------
(* The trades collection and the operations that write it: POST and PUT    *)
(* /api/trades, the CSV import loop and the MEXC sync loop.                *)
(*                                                                         *)
(* A value of a request body, a CSV cell or an API field is a JavaScript   *)
(* value: a number, a string or undefined.  A stored document holds the    *)
(* numbers and strings that reached the collection.                        *)

Num(n) == [t |-> "number", n |-> n, s |-> ""]

Str(s) == [t |-> "string", n |-> 0, s |-> s]

Undefined == [t |-> "undefined", n |-> 0, s |-> ""]

NaNValue == [t |-> "NaN", n |-> 0, s |-> ""]

\* !value
Falsy(v) ==
    \/ v.t \in {"undefined", "NaN"}
    \/ v.t = "number" /\ v.n = 0
    \/ v.t = "string" /\ v.s = ""

\* The numerals that occur as strings.
Numerals == [s \in {"0", "5", "-5", "10", "50"} |->
                IF s = "0" THEN 0 ELSE IF s = "5" THEN 5 ELSE IF s = "-5" THEN -5
                ELSE IF s = "10" THEN 10 ELSE 50]

\* parseFloat(value)
parseFloat(v) ==
    IF v.t = "number" THEN v
    ELSE IF v.t = "string" /\ v.s \in DOMAIN Numerals THEN Num(Numerals[v.s])
    ELSE NaNValue

\* value.toString().toUpperCase() on the strings that occur
toUpperCase(s) ==
    IF s = "buy" THEN "BUY" ELSE IF s = "sell" THEN "SELL"
    ELSE IF s = "completed" THEN "COMPLETED" ELSE s

\* The cast of a value to the schema type Number: a numeral string is
\* converted, '' and undefined leave the path empty, anything else fails.
CastNumber(v) ==
    IF v.t = "number" THEN v
    ELSE IF v.t = "string" /\ v.s \in DOMAIN Numerals THEN Num(Numerals[v.s])
    ELSE IF v.t = "string" /\ v.s # "" THEN NaNValue
    ELSE Undefined

SideEnum == {"BUY", "SELL"}

StatusEnum == {"COMPLETED", "CANCELED", "PENDING", "FAILED"}

NumberPaths == {"price", "amount", "totalFiat"}

\* The validators of tradeSchema that document.save() runs on the paths
\* modelled: required, enum, the Number cast and min: 0.
Validates(body) ==
    /\ body.orderId.t = "string" /\ body.orderId.s # ""
    /\ body.side.t = "string" /\ body.side.s \in SideEnum
    /\ body.status.t = "string" /\ body.status.s \in StatusEnum
    /\ \A f \in NumberPaths :
          /\ CastNumber(body[f]).t = "number"
          /\ CastNumber(body[f]).n >= 0

\* The document of a body that validates, under _id id.
DocOf(body, id) ==
    [id |-> id, orderId |-> body.orderId.s, side |-> body.side.s,
     price |-> CastNumber(body.price).n, amount |-> CastNumber(body.amount).n,
     totalFiat |-> CastNumber(body.totalFiat).n, status |-> body.status.s]

\* The body that holds the paths of a stored document.
BodyOf(doc) ==
    [orderId |-> Str(doc.orderId), side |-> Str(doc.side), price |-> Num(doc.price),
     amount |-> Num(doc.amount), totalFiat |-> Num(doc.totalFiat),
     status |-> Str(doc.status)]

\* Trade.findOne({ orderId }): the places of the documents with that orderId.
FindByOrderId(docs, orderId) == { i \in 1..Len(docs) : docs[i].orderId = orderId }

IndexAbsent(docs, orderId, id) == TRUE

\* The unique index on orderId: a write that would leave orderId on the
\* document id is refused when another document holds it.
UniqueIndex(docs, orderId, id) ==
    \A i \in 1..Len(docs) : docs[i].orderId = orderId => docs[i].id = id

OrderIds == {"o1", "o2"}

\* What a client, a CSV file or the exchange can offer as one record, each
\* field as it is written: a valid record, and the same with an amount,
\* price or totalFiat that is zero, negative, not a number or missing (""),
\* or with another status.
BaseRecord(o) ==
    [orderId |-> o, side |-> "BUY", price |-> "10", amount |-> "5",
     totalFiat |-> "50", status |-> ""]

RawRecords ==
    UNION { {BaseRecord(o)}
            \cup { [BaseRecord(o) EXCEPT !.amount = l] : l \in {"0", "-5", "abc", ""} }
            \cup { [BaseRecord(o) EXCEPT !.price = "0"] }
            \cup { [BaseRecord(o) EXCEPT !.totalFiat = l] : l \in {"0", ""} }
            \cup { [BaseRecord(o) EXCEPT !.status = "PENDING"] } : o \in OrderIds }

\* The records offered while operations interleave: valid ones, a zero
\* amount, a zero price and another status.
StoreRecords ==
    {BaseRecord("o1"), BaseRecord("o2"),
     [BaseRecord("o1") EXCEPT !.amount = "0"],
     [BaseRecord("o1") EXCEPT !.price = "0"],
     [BaseRecord("o2") EXCEPT !.status = "PENDING"]}

RecordFields == {"orderId", "side", "price", "amount", "totalFiat", "status"}

\* A field of a JSON body: a numeral is a number, a missing key undefined.
Json(l) ==
    IF l = "" THEN Undefined
    ELSE IF l \in DOMAIN Numerals THEN Num(Numerals[l]) ELSE Str(l)

\* A field of the exchange's answer: a string, or undefined when absent.
Api(l) == IF l = "" THEN Undefined ELSE Str(l)

\* req.body of POST /api/trades
PostBodies == { [f \in RecordFields |-> Json(r[f])] : r \in StoreRecords }

\* A row as csv-parser hands it over: every cell a string.
CsvRowOf(r) == [f \in RecordFields |-> Str(r[f])]

CsvRows == { CsvRowOf(r) : r \in RawRecords }

\* A trade of the exchange's answer (id, side, price, amount, quoteAmount, status).
MexcTradeOf(r) == [f \in RecordFields |-> Api(r[f])]

MexcTrades == { MexcTradeOf(r) : r \in RawRecords }

\* req.body of PUT /api/trades/:id: one key and its value.
PutBodies ==
    { [key |-> "amount", value |-> Num(0)], [key |-> "price", value |-> Num(0)],
      [key |-> "status", value |-> Str("PENDING")],
      [key |-> "orderId", value |-> Str("o2")] }

RequiredFields == {"orderId", "side", "price", "amount", "totalFiat"}

\* The loop over requiredFields: some field is falsy.
MissingRequired(body) == \E f \in RequiredFields : Falsy(body[f])

\* if (!tradeData.status) tradeData.status = 'COMPLETED'
WithDefaults(body) ==
    IF Falsy(body.status) THEN [body EXCEPT !.status = Str("COMPLETED")] ELSE body

\* A cell that the forEach of transformRow transforms (not undefined, null or '').
Present(v) == ~(v.t = "undefined" \/ (v.t = "string" /\ v.s = ""))

\* The switch of transformRow for one field: the transformed value, and
\* whether it threw.
TransformField(f, v) ==
    IF ~Present(v) THEN [threw |-> FALSE, value |-> Undefined]
    ELSE IF f = "side" THEN
        [threw |-> toUpperCase(v.s) \notin SideEnum, value |-> Str(toUpperCase(v.s))]
    ELSE IF f \in NumberPaths THEN
        LET n == parseFloat(v)
        IN  [threw |-> n.t = "NaN" \/ n.n < 0, value |-> n]
    ELSE IF f = "status" THEN
        [threw |-> FALSE,
         value |-> IF toUpperCase(v.s) \in StatusEnum THEN Str(toUpperCase(v.s))
                   ELSE Str("COMPLETED")]
    ELSE [threw |-> FALSE, value |-> v]

\* transformRow(row, mapping) under the default mapping: null (ok FALSE)
\* when a field threw or a required field is falsy.
transformRow(row) ==
    LET transformed == [f \in RecordFields |-> TransformField(f, row[f]).value]
    IN  [ok |-> /\ \A f \in RecordFields : ~TransformField(f, row[f]).threw
                /\ ~MissingRequired(transformed),
         trade |-> WithDefaults(transformed)]

\* parseFloat(x) || 0
ParseOrZero(v) == IF Falsy(parseFloat(v)) THEN Num(0) ELSE parseFloat(v)

\* x?.toUpperCase() || fallback
UpperOr(v, fallback) ==
    IF v.t = "string" /\ v.s # "" THEN Str(toUpperCase(v.s)) ELSE Str(fallback)

\* transformMEXCTrade(mexcTrade): null (ok FALSE) for an invalid trade.
transformMEXCTrade(m) ==
    LET trade == [orderId |-> m.orderId,
                  side |-> UpperOr(m.side, "BUY"),
                  price |-> ParseOrZero(m.price),
                  amount |-> ParseOrZero(m.amount),
                  totalFiat |-> ParseOrZero(m.totalFiat),
                  status |-> UpperOr(m.status, "COMPLETED")]
    IN  [ok |-> ~(Falsy(trade.orderId) \/ Falsy(trade.side)
                  \/ trade.price.n <= 0 \/ trade.amount.n <= 0),
         trade |-> trade]

\* Trade.findOneAndUpdate({ orderId }, trade, { upsert: true, new: true }):
\* the first document with the orderId takes the fields of trade, or a new
\* document is inserted; no validator runs.
Upsert(docs, trade) ==
    LET found == FindByOrderId(docs, trade.orderId.s)
    IN  IF found # {}
        THEN LET i == CHOOSE x \in found : \A y \in found : x <= y
             IN  [docs EXCEPT ![i] = DocOf(trade, docs[i].id)]
        ELSE Append(docs, DocOf(trade, Len(docs) + 1))

NumClients == 2

MaxOps == 3

Clients == 1..NumClients

NoBody == [f \in RecordFields |-> Undefined]

\* A client with no operation in flight; kind and response are those of its
\* last operation.
Idle(kind, response) ==
    [pc |-> "idle", kind |-> kind, body |-> NoBody, key |-> "", id |-> 0,
     found |-> FALSE, overwrite |-> FALSE, response |-> response]

Awaiting(kind, body, key, id, found, overwrite) ==
    [pc |-> "await", kind |-> kind, body |-> body, key |-> key, id |-> id,
     found |-> found, overwrite |-> overwrite, response |-> "none"]

StoreInit ==
    /\ trades = <<>>
    /\ pc = "store"
    /\ fifo = FifoLocals
    /\ slices = <<>>
    /\ avg = AvgLocals
    /\ fifoResult = NoResult
    /\ avgResult = NoResult
    /\ method = "FIFO"
    /\ req = <<>>
    /\ runs = <<>>
    /\ series = <<>>
    /\ store = <<>>
    /\ ops = [started |-> 0, client |-> [c \in Clients |-> Idle("none", "none")]]

StoreUnchanged == UNCHANGED <<engineVars, serverVars, runs, series>>

CanStart(c) == ops.client[c].pc = "idle" /\ ops.started < MaxOps

Started(c, op) ==
    ops' = [ops EXCEPT !.started = @ + 1, !.client[c] = op]

Finished(c, response) ==
    ops' = [ops EXCEPT !.client[c] = Idle(ops.client[c].kind, response)]

\* POST /api/trades up to the await of Trade.findOne: 400 for a falsy
\* required field, else the lookup by orderId.
PostStart(c, body) ==
    /\ CanStart(c)
    /\ IF MissingRequired(body)
       THEN Started(c, Idle("post", "400 missing field"))
       ELSE Started(c, Awaiting("post", body, "", 0,
                                FindByOrderId(store, body.orderId.s) # {}, FALSE))
    /\ UNCHANGED store
    /\ StoreUnchanged

\* POST /api/trades after the lookup: 400 if a trade was found, else the
\* defaults, new Trade(tradeData) and save(): validation, then the insert.
PostFinish(c) ==
    /\ ops.client[c].pc = "await"
    /\ ops.client[c].kind = "post"
    /\ LET body == WithDefaults(ops.client[c].body)
       IN  IF ops.client[c].found
           THEN Finished(c, "400 exists") /\ UNCHANGED store
           ELSE IF ~Validates(body)
           THEN Finished(c, "500 validation") /\ UNCHANGED store
           ELSE IF ~UniqueIndex(store, body.orderId.s, 0)
           THEN Finished(c, "500 duplicate key") /\ UNCHANGED store
           ELSE /\ Finished(c, "201")
                /\ store' = Append(store, DocOf(body, Len(store) + 1))
    /\ StoreUnchanged

\* PUT /api/trades/:id up to the await of Trade.findById: 404, or the
\* document as found with the key of the body assigned.
PutStart(c, id, change) ==
    /\ CanStart(c)
    /\ IF id \notin 1..Len(store)
       THEN Started(c, Idle("put", "404"))
       ELSE Started(c, Awaiting("put",
                                [BodyOf(store[id]) EXCEPT ![change.key] = change.value],
                                change.key, id, TRUE, FALSE))
    /\ UNCHANGED store
    /\ StoreUnchanged

\* PUT /api/trades/:id: trade.save(), validation and then the update of the
\* modified path under the unique index.
PutFinish(c) ==
    /\ ops.client[c].pc = "await"
    /\ ops.client[c].kind = "put"
    /\ LET op == ops.client[c]
       IN  IF ~Validates(op.body)
           THEN Finished(c, "500 validation") /\ UNCHANGED store
           ELSE IF ~UniqueIndex(store, op.body.orderId.s, op.id)
           THEN Finished(c, "500 duplicate key") /\ UNCHANGED store
           ELSE /\ Finished(c, "200")
                /\ store' = [store EXCEPT
                                ![op.id][op.key] = DocOf(op.body, op.id)[op.key]]
    /\ StoreUnchanged

\* One row of a CSV file: transformRow in parseCSV, and for a row that was
\* kept the loop of importTrades up to the await of Trade.findOne.
CsvStart(c, row, overwrite) ==
    /\ CanStart(c)
    /\ LET t == transformRow(row)
       IN  IF ~t.ok
           THEN Started(c, Idle("csv", "dropped"))
           ELSE Started(c, Awaiting("csv", t.trade, "", 0,
                                    FindByOrderId(store, t.trade.orderId.s) # {},
                                    overwrite))
    /\ UNCHANGED store
    /\ StoreUnchanged

\* The loop of importTrades after the lookup: skip, or upsert.
CsvFinish(c) ==
    /\ ops.client[c].pc = "await"
    /\ ops.client[c].kind = "csv"
    /\ LET op == ops.client[c]
       IN  IF op.found /\ ~op.overwrite
           THEN Finished(c, "skipped") /\ UNCHANGED store
           ELSE Finished(c, "imported") /\ store' = Upsert(store, op.body)
    /\ StoreUnchanged

\* One trade of syncTrades: transformMEXCTrade, and the upsert of a trade
\* that was not skipped.
MexcTrade(c, mexcTrade) ==
    /\ CanStart(c)
    /\ LET t == transformMEXCTrade(mexcTrade)
       IN  IF ~t.ok
           THEN Started(c, Idle("mexc", "skipped")) /\ UNCHANGED store
           ELSE Started(c, Idle("mexc", "synced")) /\ store' = Upsert(store, t.trade)
    /\ StoreUnchanged

StoreNext ==
    \E c \in Clients :
        \/ \E body \in PostBodies : PostStart(c, body)
        \/ PostFinish(c)
        \/ \E id \in 1..(Len(store) + 1), change \in PutBodies :
              PutStart(c, id, change)
        \/ PutFinish(c)
        \/ \E r \in StoreRecords, overwrite \in BOOLEAN :
              CsvStart(c, CsvRowOf(r), overwrite)
        \/ CsvFinish(c)
        \/ \E r \in StoreRecords : MexcTrade(c, MexcTradeOf(r))

StoreSpec == StoreInit /\ [][StoreNext]_vars

---------------------------------------------------------------------------
(* Properties of the trades collection                                     *)

\* C19: no two stored trades share an orderId (nor an _id), whatever the
\* sequence and interleaving of POST, PUT, CSV import and MEXC sync steps:
\* an attempt to store an orderId that exists was rejected or updated the
\* record that holds it.
C19_UniqueOrderId ==
    \A i, j \in 1..Len(store) :
        (store[i].orderId = store[j].orderId \/ store[i].id = store[j].id) => i = j

\* C19 witness: two POSTs of one orderId both passed the lookup; one was
\* stored, the other refused by the index.
C19_Witness ==
    \E c, d \in Clients :
        /\ ops.client[c].kind = "post" /\ ops.client[c].response = "500 duplicate key"
        /\ ops.client[d].kind = "post" /\ ops.client[d].response = "201"
        /\ Len(store) = 1

\* C20: every stored COMPLETED trade, the ones the profit engine is handed,
\* has amount > 0 and price > 0, after any sequence of create, update,
\* import and sync operations.
C20_StoredTradesPositive ==
    \A i \in 1..Len(store) :
        store[i].status = "COMPLETED" => store[i].amount > 0 /\ store[i].price > 0

---------------------------------------------------------------------------
(* One batch: a CSV file through importTrades, or the exchange's answer    *)
(* through syncTrades, with what the caller gets back.                     *)

MaxRows == 2

NoImportResult ==
    [returned |-> FALSE, success |-> FALSE, imported |-> 0, skipped |-> 0,
     errors |-> 0, synced |-> 0, total |-> 0]

\* A batch at its start: the records of the file or answer, in order.
Batch(kind, file, overwrite) ==
    [kind |-> kind, pc |-> IF kind = "csv" THEN "parse" ELSE "sync",
     file |-> file, overwrite |-> overwrite, trades |-> <<>>, idx |-> 0,
     found |-> FALSE, imported |-> 0, skipped |-> 0, errors |-> 0, synced |-> 0,
     result |-> NoImportResult]

Files(records) == UNION { [1..n -> records] : n \in 1..MaxRows }

\* The collection before the batch: empty, or holding a valid trade.
StoredBefore ==
    { <<>>, << DocOf(WithDefaults([f \in RecordFields |-> Json(BaseRecord("o1")[f])]), 1) >> }

ImportInit ==
    /\ trades = <<>>
    /\ pc = "import"
    /\ fifo = FifoLocals
    /\ slices = <<>>
    /\ avg = AvgLocals
    /\ fifoResult = NoResult
    /\ avgResult = NoResult
    /\ method = "FIFO"
    /\ req = <<>>
    /\ runs = <<>>
    /\ series = <<>>
    /\ store \in StoredBefore
    /\ ops \in { Batch("csv", file, overwrite) :
                     file \in Files(CsvRows), overwrite \in BOOLEAN }
               \cup { Batch("mexc", file, FALSE) : file \in Files(MexcTrades) }

\* parseCSV on('data'): a row that transformRow returns is pushed, a row
\* for which it returns null is not.
ParseRow ==
    /\ ops.pc = "parse"
    /\ ops.idx < Len(ops.file)
    /\ LET t == transformRow(ops.file[ops.idx + 1])
       IN  ops' = [ops EXCEPT !.idx = @ + 1,
                              !.trades = IF t.ok THEN Append(@, t.trade) ELSE @]
    /\ UNCHANGED store
    /\ StoreUnchanged

\* parseCSV resolves: importTrades throws when no row was kept, else the
\* import loop begins.
ParseEnd ==
    /\ ops.pc = "parse"
    /\ ops.idx >= Len(ops.file)
    /\ IF ops.trades = <<>>
       THEN ops' = [ops EXCEPT !.pc = "returned",
                               !.result = [NoImportResult EXCEPT !.returned = TRUE]]
       ELSE ops' = [ops EXCEPT !.pc = "import", !.idx = 0]
    /\ UNCHANGED store
    /\ StoreUnchanged

\* const existingTrade = await Trade.findOne({ orderId: trade.orderId })
ImportFind ==
    /\ ops.pc = "import"
    /\ ops.idx < Len(ops.trades)
    /\ ops' = [ops EXCEPT
                  !.pc = "found",
                  !.found = FindByOrderId(store, ops.trades[ops.idx + 1].orderId.s) # {}]
    /\ UNCHANGED store
    /\ StoreUnchanged

\* skippedCount++ and continue, or the upsert and importedCount++
ImportWrite ==
    /\ ops.pc = "found"
    /\ IF ops.found /\ ~ops.overwrite
       THEN /\ ops' = [ops EXCEPT !.pc = "import", !.idx = @ + 1, !.skipped = @ + 1]
            /\ UNCHANGED store
       ELSE /\ ops' = [ops EXCEPT !.pc = "import", !.idx = @ + 1, !.imported = @ + 1]
            /\ store' = Upsert(store, ops.trades[ops.idx + 1])
    /\ StoreUnchanged

\* importTrades returns its result.
ImportReturn ==
    /\ ops.pc = "import"
    /\ ops.idx >= Len(ops.trades)
    /\ ops' = [ops EXCEPT
                  !.pc = "returned",
                  !.result = [returned |-> TRUE, success |-> TRUE,
                              imported |-> ops.imported, skipped |-> ops.skipped,
                              errors |-> ops.errors, synced |-> 0,
                              total |-> Len(ops.trades)]]
    /\ UNCHANGED store
    /\ StoreUnchanged

\* One iteration of the loop of syncTrades.
SyncTrade ==
    /\ ops.pc = "sync"
    /\ ops.idx < Len(ops.file)
    /\ LET t == transformMEXCTrade(ops.file[ops.idx + 1])
       IN  IF t.ok
           THEN /\ ops' = [ops EXCEPT !.idx = @ + 1, !.synced = @ + 1]
                /\ store' = Upsert(store, t.trade)
           ELSE /\ ops' = [ops EXCEPT !.idx = @ + 1]
                /\ UNCHANGED store
    /\ StoreUnchanged

\* return { synced: syncedCount, total: allTrades.length }
SyncReturn ==
    /\ ops.pc = "sync"
    /\ ops.idx >= Len(ops.file)
    /\ ops' = [ops EXCEPT
                  !.pc = "returned",
                  !.result = [returned |-> TRUE, success |-> TRUE, imported |-> 0,
                              skipped |-> 0, errors |-> 0, synced |-> ops.synced,
                              total |-> Len(ops.file)]]
    /\ UNCHANGED store
    /\ StoreUnchanged

ImportNext ==
    \/ ParseRow
    \/ ParseEnd
    \/ ImportFind
    \/ ImportWrite
    \/ ImportReturn
    \/ SyncTrade
    \/ SyncReturn

ImportSpec == ImportInit /\ [][ImportNext]_vars

\* A value that is a positive number, written as a number or as a numeral.
Positive(v) ==
    \/ v.t = "number" /\ v.n > 0
    \/ v.t = "string" /\ v.s \in DOMAIN Numerals /\ Numerals[v.s] > 0

\* A record whose amount, price or totalFiat is missing, not a number or
\* not positive.
Malformed(record) == \E f \in NumberPaths : ~Positive(record[f])

MalformedIn(file) == { n \in 1..Len(file) : Malformed(file[n]) }

\* The number of records the result reports as left out: skipped and errors
\* of importTrades, total less synced of syncTrades.
ReportedLeftOut ==
    IF ops.kind = "csv" THEN ops.result.skipped + ops.result.errors
    ELSE ops.result.total - ops.result.synced

\* C16: once a batch with a well-formed record has returned, the batch has
\* not failed and the well-formed records are stored; no stored trade, so
\* none the engine computes over, has an amount, price or totalFiat that is
\* not positive; and the result reports at least as many records left out
\* as the batch had malformed ones.
C16_MalformedExcludedAndReported ==
    ops.pc = "returned" =>
        /\ (MalformedIn(ops.file) # 1..Len(ops.file)) =>
              /\ ops.result.success
              /\ \A n \in (1..Len(ops.file)) \ MalformedIn(ops.file) :
                    FindByOrderId(store, ops.file[n].orderId.s) # {}
        /\ \A i \in 1..Len(store) :
              store[i].amount > 0 /\ store[i].price > 0 /\ store[i].totalFiat > 0
        /\ ops.result.success => ReportedLeftOut >= Cardinality(MalformedIn(ops.file))

---------------------------------------------------------------------------
(* Further properties of the two calculators                               *)

\* C22: every slice of a SELL is cut from the lot of a BUY that precedes
\* the SELL in the completedAt-ordered input.
C22_SellMatchesEarlierBuys ==
    \A k \in SliceIds : slices[k].lot < slices[k].sell

\* C28: the inventory calculateFIFOProfit is left with is totalBuyAmount less
\* everything the slices consumed, which is max(0, totalBuyAmount -
\* totalSellAmount) of the input; it is never negative, and the summary
\* reports it rounded.
C28_FifoInventoryRemaining ==
    FifoFinished =>
        LET bought == SumAmount(BuyIds)
            sold == SumAmount(SellIds)
        IN  /\ fifo.totalBuyAmount = bought
            /\ fifo.inventoryRemaining = RSub(fifo.totalBuyAmount, ConsumedIn(slices))
            /\ fifo.inventoryRemaining =
                  IF RGt(bought, sold) THEN RSub(bought, sold) ELSE Zero
            /\ ~RLt(fifo.inventoryRemaining, Zero)
            /\ fifoResult.inventoryRemaining = Round2(fifo.inventoryRemaining)

\* C28 witness: a sell consumed part of the first of two lots, so two lots
\* are left in the queue.
C28_Witness ==
    /\ pc = "done"
    /\ Len(slices) >= 1
    /\ Len(fifo.buyQueue) = 2
    /\ RLt(fifo.buyQueue[1].amount, trades[fifo.buyQueue[1].completedAt].amount)
    /\ RGt(fifo.inventoryRemaining, fifo.buyQueue[1].amount)

\* The lowest and the highest price among the BUYs of the first n trades.
LowestBuyPrice(n) ==
    LET b == CHOOSE i \in BuysUpTo(n) :
                 \A j \in BuysUpTo(n) : ~RLt(trades[j].price, trades[i].price)
    IN  trades[b].price

HighestBuyPrice(n) ==
    LET b == CHOOSE i \in BuysUpTo(n) :
                 \A j \in BuysUpTo(n) : ~RGt(trades[j].price, trades[i].price)
    IN  trades[b].price

\* C24: once a BUY has been processed, weightedAverageCost is a number
\* between the lowest and the highest price of the BUYs processed so far
\* (every trade of the input has totalFiat = amount * price).
C24_AverageCostWithinBuyPrices ==
    (AverageStarted /\ BuysUpTo(avg.idx) # {}) =>
        /\ IsFinite(avg.weightedAverageCost)
        /\ ~RLt(avg.weightedAverageCost, LowestBuyPrice(avg.idx))
        /\ ~RGt(avg.weightedAverageCost, HighestBuyPrice(avg.idx))

\* No fee on the first n trades, and the sells among them never exceed what
\* was bought before them.
FeeFreeAndCovered(n) ==
    \A i \in 1..n :
        /\ OrZero(trades[i].feeFiat) = Zero
        /\ ~RLt(RunningBuyAmount(i), Zero)

\* C25: on an input without fees whose sells never exceed the bought
\* inventory, the excess-buy-fee share of every SELL is zero and the SELL's
\* net profit is (sellPrice - weightedAverageCost) * sellAmount.
C25_NoExcessShareWithoutFees ==
    (AverageStarted /\ trades[avg.idx].side = "SELL" /\ FeeFreeAndCovered(avg.idx)) =>
        LET t == trades[avg.idx]
        IN  /\ avg.excessFees = Zero
            /\ avg.netProfit = RMul(RSub(t.price, avg.weightedAverageCost), t.amount)

\* C26: the denominator of every BUY update is strictly positive, and
\* weightedAverageCost and the realized profit are finite numbers throughout
\* and in the summary (every amount of the input is positive).
C26_AverageDenominatorPositive ==
    /\ AverageStarted =>
          /\ trades[avg.idx].side = "BUY" => RGt(avg.newTotalAmount, Zero)
          /\ IsFinite(avg.weightedAverageCost)
          /\ IsFinite(avg.realizedProfit)
    /\ pc = "done" => IsFinite(avgResult.realizedProfitFiat)

---------------------------------------------------------------------------
(* The time series against the summary of the same window                  *)

\* C23: the cumulativeProfit of the last point getProfitTimeSeries returns is
\* the realizedProfitFiat of calculateRealizedProfit over the same trades
\* with the same method.
C23_SeriesEndsAtRealizedProfit ==
    (series.pc # "days" /\ series.daily # <<>>) =>
        series.daily[Len(series.daily)].cumulativeProfit = ProfitOf(trades)

---------------------------------------------------------------------------
(* GET /api/summary/monthly (request 1) beside GET /api/summary requests,  *)
(* on the shared calculator                                                *)

\* for (let month = 1; month <= 12; month++)
Months == 12

\* The number of a request's month fetches that may reject.
MaxRejects == 1

\* What Trade.find returns for the window of the year (month 0) or of one
\* month: the stored trades were all completed in January of that year.
WindowTrades(ts, month) == IF month \in {0, 1} THEN ts ELSE <<>>

NewMonthly(q) ==
    [query |-> q, pc |-> "monthly", fetched |-> FALSE, summary |-> NoResult,
     response |-> NoResponse, yearly |-> NoResult, monthlyData |-> <<>>]

\* The entry pushed when a month's computation throws.
ZeroMonth(month) ==
    [month |-> month, realizedProfitFiat |-> Zero, totalBuyFiat |-> Zero,
     totalSellFiat |-> Zero, totalBuyAmount |-> Zero, totalSellAmount |-> Zero,
     avgBuyPrice |-> Zero, avgSellPrice |-> Zero, inventoryRemaining |-> Zero]

\* { month, year, monthName, ...monthSummary }
MonthEntry(month, monthSummary) == monthSummary @@ [month |-> month]

\* res.json({ success: true, data: { yearly, monthly } })
MonthlyResponse(yearly, monthly) ==
    [status |-> 200, success |-> TRUE, data |-> [yearly |-> yearly, monthly |-> monthly]]

MonthlyInit ==
    /\ trades \in Examples
    /\ pc = "idle"
    /\ fifo = FifoLocals
    /\ slices = <<>>
    /\ avg = AvgLocals
    /\ fifoResult = NoResult
    /\ avgResult = NoResult
    /\ method = "FIFO"
    /\ req \in { r \in [Requests -> { NewRequest(q) : q \in QueryMethods }
                                    \cup { NewMonthly(q) : q \in QueryMethods }] :
                      \A i \in Requests : (r[i].pc = "monthly") <=> (i = 1) }
    /\ OthersIdle

\* The handler up to its first suspension: setMethod succeeds and the
\* yearly calculateRealizedProfit issues Trade.find and awaits it.
MonthlyStart(r) ==
    /\ req[r].pc = "monthly"
    /\ ~SetMethod(method, Passed(r)).threw
    /\ method' = SetMethod(method, Passed(r)).method
    /\ req' = [req EXCEPT ![r].pc = "year", ![r].fetched = TRUE]
    /\ UNCHANGED <<engineVars, otherVars>>

\* setMethod throws: the outer catch answers 500.
MonthlyReject(r) ==
    /\ req[r].pc = "monthly"
    /\ SetMethod(method, Passed(r)).threw
    /\ method' = SetMethod(method, Passed(r)).method
    /\ req' = [req EXCEPT
                  ![r].pc = "done",
                  ![r].response = ErrorResponse("Invalid method. Must be FIFO or AVERAGE")]
    /\ UNCHANGED <<engineVars, otherVars>>

\* The yearly fetch resolves: calculateRealizedProfit reads this.method and
\* computes; the handler resumes and awaits the computation of month 1.
YearResolve(r) ==
    /\ req[r].pc = "year"
    /\ req' = [req EXCEPT ![r].pc = "months",
                          ![r].yearly = SummaryBy(method, WindowTrades(trades, 0))]
    /\ UNCHANGED <<engineVars, method, otherVars>>

\* The yearly fetch rejects: the outer catch answers 500.
YearReject(r) ==
    /\ req[r].pc = "year"
    /\ req' = [req EXCEPT
                  ![r].pc = "done",
                  ![r].response = ErrorResponse("Error calculating realized profit")]
    /\ UNCHANGED <<engineVars, method, otherVars>>

\* The handler of r resumes with the entry of the month it awaited: it
\* pushes the entry and awaits the next month, or answers after the twelfth.
MonthPush(r, entry) ==
    LET monthlyData == Append(req[r].monthlyData, entry)
    IN  req' = [req EXCEPT
                   ![r].monthlyData = monthlyData,
                   ![r].pc = IF Len(monthlyData) = Months THEN "done" ELSE "months",
                   ![r].response = IF Len(monthlyData) = Months
                                   THEN MonthlyResponse(req[r].yearly, monthlyData)
                                   ELSE @]

\* A month's fetch resolves: calculateRealizedProfit reads this.method and
\* computes.
MonthResolve(r) ==
    /\ req[r].pc = "months"
    /\ LET month == Len(req[r].monthlyData) + 1
       IN  MonthPush(r, MonthEntry(month, SummaryBy(method, WindowTrades(trades, month))))
    /\ UNCHANGED <<engineVars, method, otherVars>>

\* The months of r that were answered by the inner catch.
Rejected(r) ==
    { k \in 1..Len(req[r].monthlyData) : "method" \notin DOMAIN req[r].monthlyData[k] }

\* A month's fetch rejects: the inner catch pushes the entry of zeros.
MonthReject(r) ==
    /\ req[r].pc = "months"
    /\ Cardinality(Rejected(r)) < MaxRejects
    /\ MonthPush(r, ZeroMonth(Len(req[r].monthlyData) + 1))
    /\ UNCHANGED <<engineVars, method, otherVars>>

MonthlyNext ==
    \E r \in Requests :
        \/ SummaryStart(r)
        \/ SummaryReject(r)
        \/ FetchResolve(r)
        \/ FetchReject(r)
        \/ SummaryRespond(r)
        \/ MonthlyStart(r)
        \/ MonthlyReject(r)
        \/ YearResolve(r)
        \/ YearReject(r)
        \/ MonthResolve(r)
        \/ MonthReject(r)

MonthlySpec == MonthlyInit /\ [][MonthlyNext]_vars

\* C27: in every GET /summary/monthly request the yearly summary and every
\* monthly summary computed so far are the summaries of the method this
\* request passed, whatever the other request does in between.
C27_MonthlyOneMethod ==
    \A r \in Requests :
        "yearly" \in DOMAIN req[r] =>
            /\ req[r].yearly # NoResult =>
                  req[r].yearly = SummaryBy(Passed(r), WindowTrades(trades, 0))
            /\ \A k \in 1..Len(req[r].monthlyData) :
                  "method" \in DOMAIN req[r].monthlyData[k] =>
                      req[r].monthlyData[k] =
                          MonthEntry(k, SummaryBy(Passed(r), WindowTrades(trades, k)))

---------------------------------------------------------------------------
(* The same operations offered records with another side, another status  *)
(* or no totalFiat                                                         *)

\* The records offered: a valid one for each orderId, and the first with a
\* side outside the enum, a status outside the enum, or no totalFiat.
ContractRecords ==
    {BaseRecord("o1"), BaseRecord("o2"),
     [BaseRecord("o1") EXCEPT !.side = "HOLD"],
     [BaseRecord("o1") EXCEPT !.status = "FILLED"],
     [BaseRecord("o1") EXCEPT !.totalFiat = ""]}

\* req.body of PUT /api/trades/:id: a side or a status outside the enum.
ContractPuts ==
    { [key |-> "side", value |-> Str("HOLD")],
      [key |-> "status", value |-> Str("FILLED")],
      [key |-> "status", value |-> Str("CANCELED")] }

ContractNext ==
    \E c \in Clients :
        \/ \E r \in ContractRecords : PostStart(c, [f \in RecordFields |-> Json(r[f])])
        \/ PostFinish(c)
        \/ \E id \in 1..(Len(store) + 1), change \in ContractPuts :
              PutStart(c, id, change)
        \/ PutFinish(c)
        \/ \E r \in ContractRecords, overwrite \in BOOLEAN :
              CsvStart(c, CsvRowOf(r), overwrite)
        \/ CsvFinish(c)
        \/ \E r \in ContractRecords : MexcTrade(c, MexcTradeOf(r))

ContractSpec == StoreInit /\ [][ContractNext]_vars

\* A stored trade within the contract of the schema.
WithinContract(doc) ==
    /\ doc.side \in SideEnum
    /\ doc.status \in StatusEnum
    /\ doc.orderId # ""
    /\ \A f \in NumberPaths : doc[f] \in Int

\* A record as offered that is outside the contract: a side or a given
\* status outside the enum, or one of the required fields not given.
OutsideContract(r) ==
    \/ r.side \notin SideEnum
    \/ r.status \notin StatusEnum \cup {""}
    \/ \E f \in {"orderId", "price", "amount", "totalFiat"} : r[f] = ""

\* C21: every stored trade has a side and a status of the enums and an
\* orderId, price, amount and totalFiat, after any sequence of POST, PUT,
\* CSV import and MEXC sync steps; and an operation that offers a record
\* outside the contract stores nothing: the POST or PUT holding it finishes
\* without a write, the CSV row is dropped, the sync step leaves the store
\* as it was.
C21_StoredTradesWithinContract ==
    /\ [](\A i \in 1..Len(store) : WithinContract(store[i]))
    /\ [][\A c \in Clients :
            /\ (PostFinish(c) \/ PutFinish(c)) =>
                  (\/ WithinContract(DocOf(WithDefaults(ops.client[c].body), 0))
                   \/ store' = store)
            /\ \A r \in ContractRecords :
                  OutsideContract(r) =>
                      /\ MexcTrade(c, MexcTradeOf(r)) => store' = store
                      /\ \A overwrite \in BOOLEAN :
                            CsvStart(c, CsvRowOf(r), overwrite) =>
                                ops'.client[c].pc = "idle"]_vars

====
